---- MODULE Spec2Model ----
(***************************************************************************)
(* A model of the web SDK's resilient request layer (HttpClient:           *)
(* fetchWithRetry, computeDelay, sleep, abort, the four facade methods)    *)
(* and of its event batcher (Analytics: track, flush, flushBeacon,         *)
(* destroy).  One action is one synchronous run of the JavaScript event    *)
(* loop: a call made by the application, or the continuation that runs     *)
(* when an awaited promise settles or a timer fires.                       *)
(***************************************************************************)
EXTENDS Integers, Sequences, FiniteSets, TLC

\* ------------------------------------------------------------------------
\* Program constants
\* ------------------------------------------------------------------------
MAX_RETRIES == 3
BASE_DELAY_MS == 500
MAX_JITTER_MS == 250
BATCH_SIZE == 10
FLUSH_INTERVAL_MS == 5000
MAX_QUEUE_SIZE == 1000

\* ------------------------------------------------------------------------
\* Bounds of the model
\* ------------------------------------------------------------------------
\* Number of logical requests that can be outstanding at the same time.
MaxRequests == 2

\* Number of AbortControllers the client constructs.
MaxControllers == 2

Requests == 1..MaxRequests

\* Number of events track() accepts in one run.
MaxEvents == 11

\* Number of batch POSTs of flush() that can be outstanding at the same time.
MaxFlights == 2

\* Number of flush(), destroy(), beforeunload and timer events in one run.
MaxOps == 2

\* SpecBuffer: until GrowTo events are accepted each POST fails before the
\* next track(); MaxBuffered events are accepted in one run.
GrowTo == 990
MaxBuffered == 1003

\* SpecNames: number of events track() accepts in one run.
MaxNamed == 3

\* SpecTolinku: events accepted through Tolinku.track().
MaxTracked == 2

\* SpecDelivery, SpecDestroy: number of events track() accepts in one run.
MaxDelivered == 4

\* SpecOverlay: number of show() calls of one kind awaiting their response,
\* of overlays of one kind rendered in one run, and of removals of one kind
\* that dismiss() has scheduled and that have not run.
MaxShows == 2
MaxRendered == 2
MaxRemovals == 2

\* The clock advances in steps of half the flush interval.
TickMs == FLUSH_INTERVAL_MS \div 2

\* ------------------------------------------------------------------------
\* The environment: what the network and Math.random() can produce
\* ------------------------------------------------------------------------
\* HTTP statuses a response can carry (samples of 100..599: both ends of
\* 2xx, a 3xx, both ends of the non-retryable 4xx, 429, both ends of 5xx).
Statuses == {200, 299, 304, 400, 499, 429, 500, 599}

\* res.headers.get('Retry-After'): null, or the header's text as a sequence
\* of characters.
NoHeader == [present |-> FALSE, text |-> <<>>]
Header(t) == [present |-> TRUE, text |-> t]
RetryAfterHeaders ==
    { NoHeader, Header(<<>>), Header(<<"0">>), Header(<<"2">>),
      Header(<<"1", "0">>), Header(<<"-", "1">>), Header(<<"a", "b", "c">>) }

\* What res.json() meets in the body: a JSON object with a truthy error
\* field, a JSON object without one, the JSON value null, or text that is
\* not JSON.
Bodies == {"errorObject", "plainObject", "null", "invalid"}

Responses == [status : Statuses, retryAfter : RetryAfterHeaders, body : Bodies]

\* Math.random() in hundredths: a value of [0, 1).
Randoms == {0, 50, 98}

Methods == {"get", "post", "getPublic", "postPublic"}

\* config.apiKey, as HttpClient.key returns it
ApiKey == "tolk_pub_key"

\* config.baseUrl as a sequence of characters: h://x stands for
\* https://api.example.com
DefaultBaseUrl == <<"h", ":", "/", "/", "x">>
BaseUrls ==
    { DefaultBaseUrl, DefaultBaseUrl \o <<"/">>, DefaultBaseUrl \o <<"/", "/", "/">>,
      DefaultBaseUrl \o <<"/", "a">>, DefaultBaseUrl \o <<"/", "a", "/", "/">>,
      <<"h", ":", "/", "/">>, <<"/">>, <<>> }

\* The path argument of a facade method: it starts with a slash.
DefaultPath == <<"/", "v", "1">>
Paths == { DefaultPath, <<"/">> }

\* The params argument of get / getPublic, the body argument of post /
\* postPublic: omitted, an empty object or an object with one entry.
NoArg == "undefined"
Args == { NoArg, "{}", "{k:v}" }

\* ------------------------------------------------------------------------
\* Pure functions of HttpClient
\* ------------------------------------------------------------------------
Digits == {"0", "1", "2", "3", "4", "5", "6", "7", "8", "9"}

DigitValue(c) ==
    CASE c = "0" -> 0 [] c = "1" -> 1 [] c = "2" -> 2 [] c = "3" -> 3
      [] c = "4" -> 4 [] c = "5" -> 5 [] c = "6" -> 6 [] c = "7" -> 7
      [] c = "8" -> 8 [] c = "9" -> 9

RECURSIVE DecimalValue(_)
DecimalValue(s) ==
    IF s = <<>> THEN 0
    ELSE 10 * DecimalValue(SubSeq(s, 1, Len(s) - 1)) + DigitValue(s[Len(s)])

NaN == [nan |-> TRUE, val |-> 0]

\* Number(text) on texts over digits, a sign and letters: the empty text is
\* 0, a signed run of digits is its value, anything else is NaN.
Number(s) ==
    IF s = <<>> THEN [nan |-> FALSE, val |-> 0]
    ELSE LET signed == Head(s) \in {"-", "+"}
             digits == IF signed THEN Tail(s) ELSE s
         IN  IF digits # <<>> /\ \A i \in 1..Len(digits) : digits[i] \in Digits
             THEN [nan |-> FALSE,
                   val |-> IF Head(s) = "-" THEN 0 - DecimalValue(digits)
                                            ELSE DecimalValue(digits)]
             ELSE NaN

\* s.replace(/\/+$/, '') that removes one trailing slash only
stripOneSlash(s) ==
    IF s # <<>> /\ s[Len(s)] = "/" THEN SubSeq(s, 1, Len(s) - 1) ELSE s

\* s.replace(/\/+$/, ''): s without its trailing slashes
RECURSIVE stripTrailingSlashes(_)
stripTrailingSlashes(s) ==
    IF s # <<>> /\ s[Len(s)] = "/"
    THEN stripTrailingSlashes(SubSeq(s, 1, Len(s) - 1))
    ELSE s

\* The headers member of a RequestInit: absent, or an object
NoHeaders == [given |-> FALSE, map |-> <<>>]
Headers(m) == [given |-> TRUE, map |-> m]

\* headers(): the API key header
headers == [k \in {"X-API-Key"} |-> ApiKey]

\* body ? JSON.stringify(body) : undefined
stringify(arg) == IF arg = NoArg THEN "undefined" ELSE arg

\* The RequestInit each facade method builds (its signal is kept in the
\* field signal of the request)
init(method, arg) ==
    CASE method = "get" ->
           [method |-> "GET", headers |-> Headers(headers), body |-> "undefined"]
      [] method = "post" ->
           [method |-> "POST",
            headers |-> Headers([k \in {"X-API-Key", "Content-Type"} |->
                                    IF k = "X-API-Key" THEN headers[k]
                                    ELSE "application/json"]),
            body |-> stringify(arg)]
      [] method = "getPublic" ->
           [method |-> "GET", headers |-> NoHeaders, body |-> "undefined"]
      [] method = "postPublic" ->
           [method |-> "POST",
            headers |-> Headers([k \in {"Content-Type"} |-> "application/json"]),
            body |-> stringify(arg)]

\* The URL each facade method builds: get and getPublic append the query
\* string of params when it is not empty
url(base, method, path, arg) ==
    IF method \in {"get", "getPublic"} /\ arg = "{k:v}"
    THEN base \o path \o <<"?", "k", "=", "v">>
    ELSE base \o path

NoInit == [method |-> "none", headers |-> NoHeaders, body |-> "undefined"]
NoCall == [url |-> <<>>, init |-> NoInit]

\* Response.ok
Ok(status) == status >= 200 /\ status <= 299

RECURSIVE Pow2(_)
Pow2(n) == IF n = 0 THEN 1 ELSE 2 * Pow2(n - 1)

\* Math.random() * MAX_JITTER_MS, for Math.random() = rnd / 100
Jitter(rnd) == (rnd * MAX_JITTER_MS) \div 100

NoResponse == [status |-> 0, retryAfter |-> NoHeader, body |-> "invalid"]

\* computeDelay with the jitter added to the Retry-After delay as well
computeDelayJitterOnHint(attempt, res, rnd) ==
    LET seconds == Number(res.retryAfter.text)
    IN  IF /\ res # NoResponse
           /\ res.status = 429
           /\ res.retryAfter.present
           /\ res.retryAfter.text # <<>>
           /\ ~seconds.nan
           /\ seconds.val > 0
        THEN seconds.val * 1000 + Jitter(rnd)
        ELSE BASE_DELAY_MS * Pow2(attempt) + Jitter(rnd)

\* computeDelay with a backoff that grows linearly
computeDelayLinear(attempt, res, rnd) ==
    LET seconds == Number(res.retryAfter.text)
    IN  IF /\ res # NoResponse
           /\ res.status = 429
           /\ res.retryAfter.present
           /\ res.retryAfter.text # <<>>
           /\ ~seconds.nan
           /\ seconds.val > 0
        THEN seconds.val * 1000
        ELSE BASE_DELAY_MS * (attempt + 1) + Jitter(rnd)

\* computeDelay that honours Retry-After on every response, not on 429 only
computeDelayAnyStatus(attempt, res, rnd) ==
    LET seconds == Number(res.retryAfter.text)
    IN  IF /\ res # NoResponse
           /\ res.retryAfter.present
           /\ res.retryAfter.text # <<>>
           /\ ~seconds.nan
           /\ seconds.val > 0
        THEN seconds.val * 1000
        ELSE BASE_DELAY_MS * Pow2(attempt) + Jitter(rnd)

\* computeDelay(attempt, res?): res = NoResponse when the argument is omitted
computeDelay(attempt, res, rnd) ==
    LET retryAfter == res.retryAfter
        seconds    == Number(retryAfter.text)
    IN  IF /\ res # NoResponse
           /\ res.status = 429
           /\ retryAfter.present
           /\ retryAfter.text # <<>>
           /\ ~seconds.nan
           /\ seconds.val > 0
        THEN seconds.val * 1000
        ELSE BASE_DELAY_MS * Pow2(attempt) + Jitter(rnd)

\* ------------------------------------------------------------------------
\* State
\* ------------------------------------------------------------------------
VARIABLES
    abortController,  \* HttpClient.abortController: 0 (null) or a controller
    controllers,      \* number of AbortControllers constructed so far
    aborted,          \* the controllers whose signal is aborted
    req,              \* the logical requests, by slot
    configBaseUrl,    \* config.baseUrl, the base URL the constructor was given
    baseUrl,          \* HttpClient._baseUrl
    queue,            \* Analytics.queue: the queued events, oldest first
    flushTimer,       \* Analytics.flushTimer: 0 (null) or a timer handle
    timers,           \* the timeouts that are set and have not fired
    remaining,        \* the time until each of these timeouts is due
    waited,           \* the time since each of these timeouts was set
    unloadHandler,    \* Analytics.unloadHandler is attached to beforeunload
    flights,          \* the outstanding batch POSTs of flush()
    accepted,         \* number of events track() has accepted
    eventType,        \* the event_type of each accepted event
    properties,       \* the properties of each accepted event
    gone,             \* the events the last step took out of the batcher, by the way they left
    settled,          \* the promise the last step settled: a rejected track(), a flush()
                      \* that returned without a POST, or the completion of a POST
    ops,              \* number of flush(), destroy(), beforeunload and timer events
    userId,           \* Tolinku._userId
    cancelled,        \* the outstanding batch POSTs that client.abort() has aborted
    ui                \* Messages and Banners: the overlay of each kind

configVars == <<configBaseUrl, baseUrl>>
httpVars == <<abortController, controllers, aborted, req, configVars>>
analyticsVars == <<queue, flushTimer, timers, remaining, waited, unloadHandler, flights,
                   accepted, eventType, properties, gone, settled, ops>>
tolinkuVars == <<userId, cancelled, ui>>
vars == <<httpVars, configVars, analyticsVars, tolinkuVars>>

\* A slot that holds no logical request.  pc is the await the request is
\* suspended at; attempt, lastError, delay are the locals of fetchWithRetry;
\* signal is init.signal.  The rest is the history the claims speak of:
\* calls counts the network calls made for the request; only5xx / onlyErrors
\* say whether every attempt so far ended in a 5xx response / in a transport
\* error; resStatus, resRetryAfter, resBody are the status, the Retry-After
\* header and the body of the response the last network call received (0,
\* NoHeader and "none" when it received none) and rnd is the Math.random()
\* drawn for the delay after it.  url and init are the arguments of
\* fetchWithRetry; first and sent are the URL and the RequestInit of the first
\* and of the last network call.
IdleRequest ==
    [pc |-> "idle", method |-> "none", apiKey |-> FALSE, signal |-> 0,
     url |-> <<>>, init |-> NoInit, first |-> NoCall, sent |-> NoCall,
     attempt |-> 0, calls |-> 0, site |-> "none", delay |-> 0, lastError |-> 0,
     only5xx |-> TRUE, onlyErrors |-> TRUE,
     resStatus |-> 0, resRetryAfter |-> NoHeader, resBody |-> "none", rnd |-> 0,
     outcome |-> "none", status |-> 0, message |-> "none", error |-> 0]

\* The promise returned by the facade method settles.
Settle(q, outcome, status, message, error) ==
    [q EXCEPT !.pc = "done", !.attempt = 0, !.site = "none", !.delay = 0,
              !.lastError = 0, !.resRetryAfter = NoHeader, !.rnd = 0,
              !.outcome = outcome, !.status = status,
              !.message = message, !.error = error]

\* Facade whose parseJson reports a parse failure like an error response
FacadeStatusTextOnParseFailure(q, res) ==
    IF ~Ok(res.status)
    THEN CASE res.body = "invalid" ->
                Settle(q, "TolinkuError", res.status, "statusText", 0)
           [] res.body = "errorObject" ->
                Settle(q, "TolinkuError", res.status, "body.error", 0)
           [] res.body = "plainObject" ->
                Settle(q, "TolinkuError", res.status, "statusText", 0)
           [] res.body = "null" ->
                Settle(q, "TypeError", 0, "none", 0)
    ELSE IF res.body = "invalid"
         THEN Settle(q, "TolinkuError", res.status, "statusText", 0)
         ELSE Settle(q, "resolved", res.status, res.body, 0)

\* get / post / getPublic / postPublic after fetchWithRetry returned res
Facade(q, res) ==
    IF ~Ok(res.status)
    THEN \* body = await res.json().catch(() => ({ error: res.statusText }))
         CASE res.body = "invalid" ->
                Settle(q, "TolinkuError", res.status, "statusText", 0)
           [] res.body = "errorObject" ->
                Settle(q, "TolinkuError", res.status, "body.error", 0)
           [] res.body = "plainObject" ->
                Settle(q, "TolinkuError", res.status, "statusText", 0)
           [] res.body = "null" ->
                \* body.error on null throws
                Settle(q, "TypeError", 0, "none", 0)
    ELSE \* parseJson(res)
         IF res.body = "invalid"
         THEN Settle(q, "TolinkuError", res.status,
                     "Invalid JSON in response body", 0)
         ELSE Settle(q, "resolved", res.status, res.body, 0)

\* sleep(ms, signal), called from the try block (site "response") or from
\* the catch block (site "error") of fetchWithRetry
sleep(q, ms, site) ==
    IF q.signal \in aborted
    THEN Settle(q, "AbortError", 0, "none", 0)
    ELSE [q EXCEPT !.pc = "sleeping", !.delay = ms, !.site = site]

\* fetch that sends a retry without the headers of init
fetchRetryWithoutHeaders(q) ==
    IF q.signal \in aborted
    THEN Settle(q, "AbortError", 0, "none", 0)
    ELSE [q EXCEPT !.pc = "fetching", !.calls = @ + 1, !.site = "fetch",
                   !.first = IF q.calls = 0 THEN [url |-> q.url, init |-> q.init] ELSE @,
                   !.sent = IF q.calls = 0 THEN [url |-> q.url, init |-> q.init]
                            ELSE [url |-> q.url,
                                  init |-> [q.init EXCEPT !.headers = NoHeaders]],
                   !.delay = 0, !.resStatus = 0, !.resRetryAfter = NoHeader,
                   !.resBody = "none", !.rnd = 0]

\* fetch(url, init): a network call unless init.signal is already aborted
fetch(q) ==
    IF q.signal \in aborted
    THEN Settle(q, "AbortError", 0, "none", 0)
    ELSE [q EXCEPT !.pc = "fetching", !.calls = @ + 1, !.site = "fetch",
                   !.first = IF q.calls = 0 THEN [url |-> q.url, init |-> q.init] ELSE @,
                   !.sent = [url |-> q.url, init |-> q.init],
                   !.delay = 0, !.resStatus = 0, !.resRetryAfter = NoHeader,
                   !.resBody = "none", !.rnd = 0]

\* OnResponse that does not await the retry delay: the next network call is
\* made in the step that received the response
OnResponseRetriesAtOnce(q, res, rnd) ==
    LET q1 == [q EXCEPT !.only5xx = @ /\ res.status >= 500 /\ res.status <= 599,
                        !.onlyErrors = FALSE, !.resStatus = res.status,
                        !.resRetryAfter = res.retryAfter, !.resBody = res.body,
                        !.rnd = rnd]
    IN  IF Ok(res.status)
           \/ (res.status >= 400 /\ res.status < 500 /\ res.status # 429)
        THEN Facade(q1, res)
        ELSE IF q1.attempt < MAX_RETRIES
             THEN fetch([q1 EXCEPT !.attempt = @ + 1])
             ELSE Facade(q1, res)

\* fetchWithRetry: the try block after `await fetch` resolved with res
OnResponse(q, res, rnd) ==
    LET q1 == [q EXCEPT !.only5xx = @ /\ res.status >= 500 /\ res.status <= 599,
                        !.onlyErrors = FALSE, !.resStatus = res.status,
                        !.resRetryAfter = res.retryAfter, !.resBody = res.body,
                        !.rnd = rnd]
    IN  IF Ok(res.status)
           \/ (res.status >= 400 /\ res.status < 500 /\ res.status # 429)
        THEN Facade(q1, res)
        ELSE IF q1.attempt < MAX_RETRIES
             THEN sleep(q1, computeDelay(q1.attempt, res, rnd), "response")
             ELSE Facade(q1, res)

\* OnTransportError that keeps the first error instead of the last
OnTransportErrorKeepsFirst(q, rnd) ==
    LET q1 == [q EXCEPT !.lastError = IF @ = 0 THEN q.calls ELSE @,
                        !.only5xx = FALSE, !.rnd = rnd]
    IN  IF q1.attempt < MAX_RETRIES
        THEN [q1 EXCEPT !.pc = "sleeping", !.site = "error",
                        !.delay = computeDelay(q1.attempt, NoResponse, rnd)]
        ELSE [q1 EXCEPT !.pc = "done", !.attempt = 0, !.site = "none",
                        !.delay = 0, !.lastError = 0, !.rnd = 0,
                        !.outcome = "TransportError", !.error = q1.lastError]

\* fetchWithRetry: the catch block after `await fetch` rejected with a
\* transport error (not an AbortError); the error is named by the number of
\* the network call that raised it
OnTransportError(q, rnd) ==
    LET q1 == [q EXCEPT !.lastError = q.calls, !.only5xx = FALSE, !.rnd = rnd]
    IN  IF q1.attempt < MAX_RETRIES
        THEN sleep(q1, computeDelay(q1.attempt, NoResponse, rnd), "error")
        ELSE \* the loop ends: throw lastError
             Settle(q1, "TransportError", 0, "none", q1.lastError)

\* OnDelayElapsed of a loop that does not count its attempts
OnDelayElapsedSameAttempt(q) == fetch(q)

\* fetchWithRetry: `continue` after `await sleep` resolved
OnDelayElapsed(q) == fetch([q EXCEPT !.attempt = @ + 1])

\* OnAbortError without the AbortError test of the catch block: the error is
\* handled as a transport error
OnAbortErrorRetried(q) ==
    LET q1 == [q EXCEPT !.lastError = q.calls, !.only5xx = FALSE]
    IN  IF q1.attempt < MAX_RETRIES
        THEN [q1 EXCEPT !.pc = "done", !.attempt = 0, !.delay = 0,
                        !.lastError = 0, !.resRetryAfter = NoHeader,
                        !.outcome = "AbortError"]
        ELSE [q1 EXCEPT !.pc = "done", !.attempt = 0, !.delay = 0,
                        !.lastError = 0, !.resRetryAfter = NoHeader,
                        !.outcome = "TransportError", !.error = q1.lastError]

\* fetchWithRetry: an awaited fetch or sleep rejected with an AbortError:
\* the catch block rethrows it (fetch, sleep of the try block) or it leaves
\* the catch block it was raised in (sleep of the catch block).  The settled
\* request keeps site, the await that raised the error.
OnAbortError(q) == [Settle(q, "AbortError", 0, "none", 0) EXCEPT !.site = q.site]

\* the getter HttpClient.signal
SignalController == IF abortController = 0 THEN controllers + 1 ELSE abortController

\* headers(): only get and post send X-API-Key
SendsApiKey(method) == method \in {"get", "post"}

\* ------------------------------------------------------------------------
\* Actions of HttpClient
\* ------------------------------------------------------------------------
\* new HttpClient(config)
Constructed(config) ==
    /\ abortController = 0
    /\ controllers = 0
    /\ aborted = {}
    /\ req = [r \in Requests |-> IdleRequest]
    /\ configBaseUrl = config
    /\ baseUrl = stripTrailingSlashes(config)

HttpInit == Constructed(DefaultBaseUrl)

\* client.get / post / getPublic / postPublic up to its first await
Issue(r, method, path, arg) ==
    /\ req[r].pc \in {"idle", "done"}
    /\ abortController' = SignalController
    /\ controllers' = IF abortController = 0 THEN controllers + 1 ELSE controllers
    /\ req' = [req EXCEPT ![r] =
                 fetch([IdleRequest EXCEPT !.method = method,
                                           !.apiKey = SendsApiKey(method),
                                           !.url = url(baseUrl, method, path, arg),
                                           !.init = init(method, arg),
                                           !.signal = SignalController])]
    /\ UNCHANGED <<aborted, configVars, analyticsVars, tolinkuVars>>

\* the network answers the outstanding call of r with a response
FetchResponds(r, res, rnd) ==
    /\ req[r].pc = "fetching"
    /\ req' = [req EXCEPT ![r] = OnResponse(req[r], res, rnd)]
    /\ UNCHANGED <<abortController, controllers, aborted, configVars, analyticsVars, tolinkuVars>>

\* the outstanding call of r fails (DNS, connection reset, ...)
FetchFails(r, rnd) ==
    /\ req[r].pc = "fetching"
    /\ req' = [req EXCEPT ![r] = OnTransportError(req[r], rnd)]
    /\ UNCHANGED <<abortController, controllers, aborted, configVars, analyticsVars, tolinkuVars>>

\* the timer of sleep() fires
DelayElapses(r) ==
    /\ req[r].pc = "sleeping"
    /\ req' = [req EXCEPT ![r] = OnDelayElapsed(req[r])]
    /\ UNCHANGED <<abortController, controllers, aborted, configVars, analyticsVars, tolinkuVars>>

\* Cancelled when sleep() registers no abort listener
CancelledInFlightOnly(c) ==
    [r \in Requests |->
        IF req[r].signal = c /\ req[r].pc = "fetching"
        THEN [req[r] EXCEPT !.pc = "aborting"]
        ELSE req[r]]

\* The requests an abort of controller c reaches: fetch rejects its promise,
\* the listener of sleep clears the timer and rejects.
Cancelled(c) ==
    [r \in Requests |->
        IF req[r].signal = c /\ req[r].pc \in {"fetching", "sleeping"}
        THEN [req[r] EXCEPT !.pc = "aborting"]
        ELSE req[r]]

\* abort() that keeps the aborted controller
AbortKeepsController ==
    IF abortController # 0
    THEN /\ aborted' = aborted \cup {abortController}
         /\ req' = Cancelled(abortController)
         /\ UNCHANGED <<abortController, controllers, configVars, analyticsVars, tolinkuVars>>
    ELSE UNCHANGED vars

\* client.abort()
Abort ==
    IF abortController # 0
    THEN /\ aborted' = aborted \cup {abortController}
         /\ req' = Cancelled(abortController)
         /\ abortController' = 0
         /\ UNCHANGED <<controllers, configVars, analyticsVars, tolinkuVars>>
    ELSE UNCHANGED vars

\* the continuation of a request whose awaited promise was rejected by abort
AbortObserved(r) ==
    /\ req[r].pc = "aborting"
    /\ req' = [req EXCEPT ![r] = OnAbortError(req[r])]
    /\ UNCHANGED <<abortController, controllers, aborted, configVars, analyticsVars, tolinkuVars>>

\* ------------------------------------------------------------------------
\* Analytics
\* ------------------------------------------------------------------------
\* An event is named by the order in which track() accepted it: 1, 2, ...
\* A flight is the snapshot of a flush() whose POST is outstanding, with the
\* caller of that flush(): track(), the application or the timer callback.

\* The eventType argument of track(): a value that is not a string, or a
\* string as a sequence of characters.
NonString == [string |-> FALSE, text |-> <<>>]
Str(t) == [string |-> TRUE, text |-> t]

CustomPrefix == <<"c", "u", "s", "t", "o", "m", ".">>

EventNames ==
    { NonString, Str(<<>>), Str(<<" ", " ">>), Str(<<"\n">>),
      Str(<<"a">>), Str(<<"b", "_", "1">>), Str(<<" ", "a">>),
      Str(<<"A">>), Str(<<"a", "-", "b">>), Str(<<"a", " ", "b">>),
      Str(<<"a", "@">>), Str(<<"a", "\n">>), Str(<<"c", "u", "s", "t", "o", "m">>),
      Str(CustomPrefix), Str(CustomPrefix \o <<"a">>),
      Str(CustomPrefix \o <<"A">>), Str(CustomPrefix \o CustomPrefix \o <<"a">>) }

\* The name SpecAnalytics and SpecBuffer track every event with.
DefaultName == Str(<<"a">>)

WhiteSpace == {" ", "\t", "\n"}

\* String.prototype.trim
RECURSIVE trim(_)
trim(s) ==
    IF s = <<>> THEN s
    ELSE IF Head(s) \in WhiteSpace THEN trim(Tail(s))
    ELSE IF s[Len(s)] \in WhiteSpace THEN trim(SubSeq(s, 1, Len(s) - 1))
    ELSE s

\* String.prototype.startsWith
startsWith(s, prefix) ==
    Len(s) >= Len(prefix) /\ SubSeq(s, 1, Len(prefix)) = prefix

\* The character class [a-z0-9_]
NameChars ==
    { "a", "b", "c", "d", "e", "f", "g", "h", "i", "j", "k", "l", "m",
      "n", "o", "p", "q", "r", "s", "t", "u", "v", "w", "x", "y", "z", "_" }
    \cup Digits

\* /^custom\.[a-z0-9_]+$/.test(s)
eventNameRegex(s) ==
    /\ startsWith(s, CustomPrefix)
    /\ Len(s) > Len(CustomPrefix)
    /\ \A i \in (Len(CustomPrefix) + 1)..Len(s) : s[i] \in NameChars

\* validate that tests the name before the prefix is added
validateBeforePrefix(name) ==
    IF ~name.string \/ Len(trim(name.text)) = 0
    THEN [error |-> "event name must be a non-empty string", eventType |-> <<>>]
    ELSE [error |-> "none",
          eventType |-> IF startsWith(name.text, CustomPrefix)
                        THEN name.text ELSE CustomPrefix \o name.text]

\* validate that adds the prefix to every name
validateDoublePrefix(name) ==
    IF ~name.string \/ Len(trim(name.text)) = 0
    THEN [error |-> "event name must be a non-empty string", eventType |-> <<>>]
    ELSE [error |-> "none", eventType |-> CustomPrefix \o name.text]

\* track(): the checks of the event name, and the event_type that is queued
validate(name) ==
    IF ~name.string \/ Len(trim(name.text)) = 0
    THEN [error |-> "event name must be a non-empty string", eventType |-> <<>>]
    ELSE LET prefixed == IF startsWith(name.text, CustomPrefix)
                         THEN name.text ELSE CustomPrefix \o name.text
         IN  IF ~eventNameRegex(prefixed)
             THEN [error |-> "event name is invalid", eventType |-> <<>>]
             ELSE [error |-> "none", eventType |-> prefixed]

\* The properties argument of track(): omitted (undefined), or an object, as
\* the function from its keys to their values.
EmptyMap == [k \in {} |-> Str(<<>>)]
Omitted == [given |-> FALSE, map |-> EmptyMap]
Props(m) == [given |-> TRUE, map |-> m]

\* The arguments the application passes: none, {}, { plan: 'g' } or
\* { user_id: '2' }.
PropsArgs ==
    { Omitted, Props(EmptyMap), Props([k \in {"plan"} |-> Str(<<"g">>)]),
      Props([k \in {"user_id"} |-> Str(<<"2">>)]) }

\* queuedProperties that keeps an omitted argument as it is
queuedPropertiesKeepsUndefined(props) == IF props.given THEN props.map ELSE props

\* properties || {}: an object is truthy, undefined is not
queuedProperties(props) == IF props.given THEN props.map ELSE EmptyMap

\* What client.post can settle with: it resolves with the parsed body of a
\* 2xx response (an object without errors, an object with a non-empty errors
\* list, or the JSON value null), or it rejects.
PostResults == {"ok", "partialFailure", "null"}
PostErrors == {"TolinkuError", "TransportError", "AbortError", "TypeError"}

\* No promise was rejected and no flush() completed in the last step.
NoSettlement == [by |-> "none", post |-> "none", promise |-> "none", error |-> "none"]

\* No event left the batcher in the last step.
NothingGone ==
    [delivered |-> {}, beaconed |-> {}, dropped |-> {}, discarded |-> {}, beacons |-> <<>>]

AnalyticsInit ==
    /\ queue = <<>>
    /\ flushTimer = 0
    /\ timers = {}
    /\ remaining = <<>>
    /\ waited = <<>>
    /\ unloadHandler = TRUE
    /\ flights = {}
    /\ accepted = 0
    /\ eventType = <<>>
    /\ properties = <<>>
    /\ gone = NothingGone
    /\ settled = NoSettlement
    /\ ops = 0

\* setTimeout returns a handle that no pending timeout and no field holds
NewTimer == CHOOSE t \in 1..(Cardinality(timers) + 2) : t \notin timers \cup {flushTimer}

\* The state of Analytics a handler starts in: what the methods read and
\* write.  remaining[t] is the time until timeout t is due and waited[t] the
\* time since it was set; gone collects the events the handler takes out of
\* the batcher, by the way they leave.
AnalyticsState == [queue |-> queue, flushTimer |-> flushTimer, timers |-> timers,
                   remaining |-> remaining, waited |-> waited,
                   flights |-> flights, gone |-> NothingGone]

Range(s) == { s[i] : i \in DOMAIN s }

\* this.flushTimer = setTimeout(callback, ms)
setFlushTimer(a, ms) ==
    [a EXCEPT !.flushTimer = NewTimer,
              !.timers = @ \cup {NewTimer},
              !.remaining = [t \in a.timers \cup {NewTimer} |->
                                IF t = NewTimer THEN ms ELSE a.remaining[t]],
              !.waited = [t \in a.timers \cup {NewTimer} |->
                             IF t = NewTimer THEN 0 ELSE a.waited[t]]]

\* if (this.flushTimer) { clearTimeout(this.flushTimer); this.flushTimer = null }
clearFlushTimer(a) ==
    IF a.flushTimer # 0
    THEN [a EXCEPT !.timers = @ \ {a.flushTimer},
                   !.remaining = [t \in a.timers \ {a.flushTimer} |-> a.remaining[t]],
                   !.waited = [t \in a.timers \ {a.flushTimer} |-> a.waited[t]],
                   !.flushTimer = 0]
    ELSE a

\* flush without the return on an empty queue: it posts an empty batch
flushPostsEmptyBatch(a, by) ==
    LET cleared == clearFlushTimer(a)
    IN  [cleared EXCEPT !.queue = <<>>,
                        !.flights = @ \cup {[events |-> cleared.queue, by |-> by]}]

\* flush() up to its await: clear the timer, snapshot the queue, start the POST
flush(a, by) ==
    LET cleared == clearFlushTimer(a)
    IN  IF Len(cleared.queue) = 0
        THEN cleared
        ELSE [cleared EXCEPT !.queue = <<>>,
                             !.flights = @ \cup {[events |-> cleared.queue, by |-> by]}]

\* track that flushes only when the queue has grown beyond BATCH_SIZE
trackFlushesAboveBatchSize(a, event) ==
    LET pushed == [a EXCEPT !.queue = Append(@, event)]
        armed  == IF Len(pushed.queue) = 1 /\ pushed.flushTimer = 0
                  THEN setFlushTimer(pushed, FLUSH_INTERVAL_MS)
                  ELSE pushed
    IN  IF Len(armed.queue) > BATCH_SIZE THEN flush(armed, "track") ELSE armed

\* track that arms the flush timer with the retry delay of the HTTP client
trackArmsBaseDelay(a, event) ==
    LET pushed == [a EXCEPT !.queue = Append(@, event)]
        armed  == IF Len(pushed.queue) = 1 /\ pushed.flushTimer = 0
                  THEN setFlushTimer(pushed, BASE_DELAY_MS)
                  ELSE pushed
    IN  IF Len(armed.queue) >= BATCH_SIZE THEN flush(armed, "track") ELSE armed

\* track that arms the flush timer for every first queued event, also when
\* a timer is armed
trackArmsWhileArmed(a, event) ==
    LET pushed == [a EXCEPT !.queue = Append(@, event)]
        armed  == IF Len(pushed.queue) = 1
                  THEN setFlushTimer(pushed, FLUSH_INTERVAL_MS)
                  ELSE pushed
    IN  IF Len(armed.queue) >= BATCH_SIZE THEN flush(armed, "track") ELSE armed

\* track(eventType, properties) of an event that passes validation, up to
\* its await
track(a, event) ==
    LET pushed == [a EXCEPT !.queue = Append(@, event)]
        armed  == IF Len(pushed.queue) = 1 /\ pushed.flushTimer = 0
                  THEN setFlushTimer(pushed, FLUSH_INTERVAL_MS)
                  ELSE pushed
    IN  IF Len(armed.queue) >= BATCH_SIZE THEN flush(armed, "track") ELSE armed

\* the callback of the flush timer t
timerCallback(a, t) ==
    flush([a EXCEPT !.timers = @ \ {t},
                    !.remaining = [x \in a.timers \ {t} |-> a.remaining[x]],
                    !.waited = [x \in a.timers \ {t} |-> a.waited[x]],
                    !.flushTimer = 0],
          "timer")

\* requeue that appends the failed snapshot behind the queued events
requeueAtBack(a, events) ==
    LET pushed == a.queue \o events
        excess == Len(pushed) - MAX_QUEUE_SIZE
    IN  IF excess > 0
        THEN [a EXCEPT !.queue = SubSeq(pushed, excess + 1, Len(pushed)),
                       !.gone.dropped = @ \cup Range(SubSeq(pushed, 1, excess))]
        ELSE [a EXCEPT !.queue = pushed]

\* requeue without the bound on the queue
requeueUnbounded(a, events) == [a EXCEPT !.queue = events \o a.queue]

\* flush(): the catch block, after the POST of snapshot events failed
requeue(a, events) ==
    LET unshifted == events \o a.queue
        excess    == Len(unshifted) - MAX_QUEUE_SIZE
    IN  IF excess > 0
        THEN [a EXCEPT !.queue = SubSeq(unshifted, excess + 1, Len(unshifted)),
                       !.gone.dropped = @ \cup Range(SubSeq(unshifted, 1, excess))]
        ELSE [a EXCEPT !.queue = unshifted]

\* onPostResolved that takes a partial failure for a failed POST
onPostResolvedRequeuesPartial(a, f, result) ==
    LET landed == [a EXCEPT !.flights = @ \ {f},
                            !.gone.delivered = @ \cup Range(f.events)]
    IN  IF result \in {"null", "partialFailure"}
        THEN requeue(landed, f.events)
        ELSE landed

\* flush() after `await this.client.post` resolved with result: the server
\* has the snapshot; reading result.errors throws when result is null, and
\* the catch block takes that for a failed POST
onPostResolved(a, f, result) ==
    LET landed == [a EXCEPT !.flights = @ \ {f},
                            !.gone.delivered = @ \cup Range(f.events)]
    IN  IF result = "null" THEN requeue(landed, f.events) ELSE landed

\* onPostRejected that gives the failed snapshot up
onPostRejectedDropsSnapshot(a, f) == [a EXCEPT !.flights = @ \ {f}]

\* flush() after `await this.client.post` rejected
onPostRejected(a, f) == requeue([a EXCEPT !.flights = @ \ {f}], f.events)

\* the promise of flush() when its catch block rethrows
flushPromiseRethrows(outcome) ==
    IF outcome \in PostErrors \cup {"null"} THEN "rejected" ELSE "resolved"

\* How the promise of flush() settles once client.post settled with outcome:
\* the try block has no exit but its end and the catch block rethrows nothing.
flushPromise(outcome) ==
    IF outcome \in PostErrors \cup {"null"}
    THEN "resolved"     \* the catch block ran to its end
    ELSE "resolved"     \* the try block ran to its end

\* flush() called by `by` returned at `if (this.queue.length === 0) return`:
\* its promise resolves and no POST was made.
Returned(by) == [by |-> by, post |-> "none", promise |-> "resolved", error |-> "none"]

\* What the completion of flight f settles: the promise of the track() that
\* awaits flush(), of the application's flush(), or the promise the timer
\* callback dropped.
Completion(f, outcome) ==
    [by |-> f.by,
     post |-> IF outcome \in PostErrors THEN "rejected" ELSE "resolved",
     promise |-> flushPromise(outcome), error |-> "none"]

\* navigator.sendBeacon at a teardown: not a function, or a function whose
\* call returns false (the browser did not queue the data) or true.
SendBeacon == {"unavailable", "false", "true"}

\* flushBeacon that puts the events back when sendBeacon is missing or
\* returns false
flushBeaconRequeues(a, beacon) ==
    IF Len(a.queue) = 0 THEN a
    ELSE IF beacon = "true"
         THEN [a EXCEPT !.queue = <<>>,
                        !.gone.beaconed = @ \cup Range(a.queue),
                        !.gone.beacons = Append(@, [events |-> a.queue, apiKey |-> ApiKey,
                                                    queued |-> TRUE])]
         ELSE a

\* flushBeacon(): take the queue and hand it to navigator.sendBeacon when
\* there is one; gone.beacons lists the sendBeacon calls with the events and
\* the apiKey of their body and the value they returned, which is ignored
flushBeacon(a, beacon) ==
    IF Len(a.queue) = 0 THEN a
    ELSE IF beacon # "unavailable"
         THEN [a EXCEPT !.queue = <<>>,
                        !.gone.beaconed = @ \cup Range(a.queue),
                        !.gone.beacons = Append(@, [events |-> a.queue, apiKey |-> ApiKey,
                                                    queued |-> beacon = "true"])]
         ELSE [a EXCEPT !.queue = <<>>, !.gone.discarded = @ \cup Range(a.queue)]

\* destroy that leaves the flush timer armed
destroyKeepsTimer(a, beacon) == flushBeacon(a, beacon)

\* destroy() of Analytics, without the listener
destroy(a, beacon) == clearFlushTimer(flushBeacon(a, beacon))

\* The methods leave Analytics in state a
Becomes(a) ==
    /\ queue' = a.queue
    /\ flushTimer' = a.flushTimer
    /\ timers' = a.timers
    /\ remaining' = a.remaining
    /\ waited' = a.waited
    /\ flights' = a.flights
    /\ gone' = a.gone

\* analytics.track(name, props) up to its first await or its throw
Track(name, props) ==
    LET checked == validate(name)
    IN  IF checked.error # "none"
        THEN /\ settled' = [by |-> "track", post |-> "none",
                            promise |-> "rejected", error |-> checked.error]
             /\ gone' = NothingGone
             /\ UNCHANGED <<queue, flushTimer, timers, remaining, waited, flights,
                            accepted, eventType, properties, unloadHandler, ops,
                            httpVars, tolinkuVars>>
        ELSE /\ LET a == track(AnalyticsState, accepted + 1)
                IN  /\ Cardinality(a.flights) <= MaxFlights
                    /\ Becomes(a)
             /\ accepted' = accepted + 1
             /\ eventType' = Append(eventType, checked.eventType)
             /\ properties' = Append(properties, queuedProperties(props))
             /\ settled' = NoSettlement
             /\ UNCHANGED <<unloadHandler, ops, httpVars, tolinkuVars>>

\* analytics.flush() called by the application
Flush ==
    /\ ops < MaxOps
    /\ ops' = ops + 1
    /\ LET a == flush(AnalyticsState, "flush")
       IN  /\ Cardinality(a.flights) <= MaxFlights
           /\ Becomes(a)
           /\ settled' = IF a.flights = flights THEN Returned("flush") ELSE NoSettlement
    /\ UNCHANGED <<unloadHandler, accepted, eventType, properties, httpVars, tolinkuVars>>

\* time passes while no timeout is due
Tick ==
    /\ timers # {}
    /\ \A t \in timers : remaining[t] > 0
    /\ remaining' = [t \in timers |->
                        IF remaining[t] > TickMs THEN remaining[t] - TickMs ELSE 0]
    /\ waited' = [t \in timers |-> waited[t] + TickMs]
    /\ settled' = NoSettlement
    /\ gone' = NothingGone
    /\ UNCHANGED <<queue, flushTimer, timers, unloadHandler, flights, accepted,
                   eventType, properties, ops, httpVars, tolinkuVars>>

\* the flush timer t is due and fires
TimerFires(t) ==
    /\ t \in timers
    /\ remaining[t] = 0
    /\ ops < MaxOps
    /\ ops' = ops + 1
    /\ LET a == timerCallback(AnalyticsState, t)
       IN  /\ Cardinality(a.flights) <= MaxFlights
           /\ Becomes(a)
           /\ settled' = IF a.flights = flights THEN Returned("timer") ELSE NoSettlement
    /\ UNCHANGED <<unloadHandler, accepted, eventType, properties, httpVars, tolinkuVars>>

\* client.post resolves with result: flush() goes on after its await
PostSucceeds(f, result) ==
    /\ f \in flights
    /\ Becomes(onPostResolved(AnalyticsState, f, result))
    /\ settled' = Completion(f, result)
    /\ UNCHANGED <<unloadHandler, accepted, eventType, properties, ops, httpVars, tolinkuVars>>

\* client.post rejects with error: the snapshot is put back
PostFails(f, error) ==
    /\ f \in flights
    /\ Becomes(onPostRejected(AnalyticsState, f))
    /\ settled' = Completion(f, error)
    /\ UNCHANGED <<unloadHandler, accepted, eventType, properties, ops, httpVars, tolinkuVars>>

\* the page fires beforeunload
BeforeUnload(beacon) ==
    /\ unloadHandler
    /\ ops < MaxOps
    /\ ops' = ops + 1
    /\ Becomes(flushBeacon(AnalyticsState, beacon))
    /\ settled' = NoSettlement
    /\ UNCHANGED <<unloadHandler, accepted, eventType, properties, httpVars, tolinkuVars>>

\* analytics.destroy()
Destroy(beacon) ==
    /\ Becomes(destroy(AnalyticsState, beacon))
    /\ unloadHandler' = FALSE
    /\ ops < MaxOps
    /\ ops' = ops + 1
    /\ settled' = NoSettlement
    /\ UNCHANGED <<accepted, eventType, properties, httpVars, tolinkuVars>>

\* ------------------------------------------------------------------------
\* Tolinku
\* ------------------------------------------------------------------------
\* The argument of setUserId: null (NonString) or a string.
UserIds == { NonString, Str(<<>>), Str(<<"1">>) }

\* The event names SpecTolinku tracks with.
TolinkuNames == { Str(<<"b">>), Str(CustomPrefix \o <<"a">>), Str(<<"A">>) }

\* { ...base, ...props }: the keys of props win
spread(base, props) ==
    LET over == IF props.given THEN props.map ELSE EmptyMap
    IN  [k \in DOMAIN base \cup DOMAIN over |->
            IF k \in DOMAIN over THEN over[k] ELSE base[k]]

\* mergedProps where the user ID of the SDK wins over the caller's key
mergedPropsUserIdWins(id, props) ==
    IF id.string /\ id.text # <<>>
    THEN Props([k \in {"user_id"} \cup DOMAIN props.map |->
                   IF k = "user_id" THEN id ELSE props.map[k]])
    ELSE props

\* this._userId ? { user_id: this._userId, ...properties } : properties
mergedProps(id, props) ==
    IF id.string /\ id.text # <<>>
    THEN Props(spread([k \in {"user_id"} |-> id], props))
    ELSE props

\* The two kinds of overlay: the in-app message of Messages (field overlay)
\* and the smart banner of Banners (field container).
Kinds == {"message", "banner"}

\* Messages / Banners after construction.  An element is named by the order
\* in which render() created it: 1, 2, ...; 0 is null.  overlay and styleEl
\* are the fields; attached and styles are the elements of this kind that
\* are in document.body and in document.head; removals counts the timeouts
\* of dismiss() that are pending and shows the show() calls that await their
\* response.  The rest is history: rendered counts the overlays rendered
\* and dismissed says whether dismiss() was called since the last render.
NoOverlay ==
    [overlay |-> 0, styleEl |-> 0, attached |-> {}, styles |-> {},
     removals |-> 0, shows |-> 0, rendered |-> 0, dismissed |-> FALSE]

\* render(): remove the overlay the field holds, create and attach a new one
render(o) ==
    LET e == o.rendered + 1
    IN  [o EXCEPT !.attached = (IF o.overlay # 0 THEN @ \ {o.overlay} ELSE @) \cup {e},
                  !.styles = (IF o.overlay # 0 THEN @ \ {o.styleEl} ELSE @) \cup {e},
                  !.overlay = e, !.styleEl = e,
                  !.rendered = e, !.dismissed = FALSE]

\* dismiss(): when an overlay is held, schedule its removal
dismiss(o) ==
    IF o.overlay # 0
    THEN [o EXCEPT !.removals = @ + 1, !.dismissed = TRUE]
    ELSE [o EXCEPT !.dismissed = TRUE]

\* the callback dismiss() scheduled: it removes the overlay the field holds
\* when it runs
removal(o) ==
    [o EXCEPT !.attached = @ \ {o.overlay}, !.styles = @ \ {o.styleEl},
              !.overlay = 0, !.styleEl = 0, !.removals = @ - 1]

TolinkuInit ==
    /\ userId = NonString
    /\ cancelled = {}
    /\ ui = [k \in Kinds |-> NoOverlay]

\* tolinku.setUserId(id)
SetUserId(id) ==
    /\ userId' = id
    /\ gone' = NothingGone
    /\ settled' = NoSettlement
    /\ UNCHANGED <<queue, flushTimer, timers, remaining, waited, unloadHandler,
                   flights, accepted, eventType, properties, ops, httpVars, cancelled,
                   ui>>

\* tolinku.track(name, props)
TolinkuTrack(name, props) == Track(name, mergedProps(userId, props))

\* tolinku.destroy(): analytics.destroy(), client.abort(), banners.dismiss()
\* and messages.dismiss().  The POSTs of flush() are requests of the client;
\* the batcher keeps them as flights, and abort() rejects the fetch or the
\* sleep each of them awaits.
TolinkuDestroy(beacon) ==
    /\ ops < MaxOps
    /\ ops' = ops + 1
    /\ Becomes(destroy(AnalyticsState, beacon))
    /\ unloadHandler' = FALSE
    /\ aborted' = IF abortController # 0 THEN aborted \cup {abortController} ELSE aborted
    /\ req' = IF abortController # 0 THEN Cancelled(abortController) ELSE req
    /\ abortController' = 0
    /\ cancelled' = cancelled \cup flights
    /\ ui' = [k \in Kinds |-> dismiss(ui[k])]
    /\ settled' = NoSettlement
    /\ UNCHANGED <<accepted, eventType, properties, controllers, configVars, userId>>

\* client.post of an aborted POST rejects with the AbortError: flush() goes
\* on in its catch block
PostAborted(f) ==
    /\ f \in flights \cap cancelled
    /\ Becomes(onPostRejected(AnalyticsState, f))
    /\ settled' = Completion(f, "AbortError")
    /\ cancelled' = cancelled \ {f}
    /\ UNCHANGED <<unloadHandler, accepted, eventType, properties, ops, httpVars, userId,
                   ui>>

\* The overlay of kind k becomes o; nothing else changes.
Overlay(k, o) ==
    /\ ui' = [ui EXCEPT ![k] = o]
    /\ UNCHANGED <<httpVars, analyticsVars, userId, cancelled>>

\* tolinku.showMessage() / showBanner() up to the await of the GET
ShowCalled(k) ==
    /\ ui[k].shows < MaxShows
    /\ Overlay(k, [ui[k] EXCEPT !.shows = @ + 1])

\* show() after its GET resolved with a message or banner to show
ShowRenders(k) ==
    /\ ui[k].shows > 0
    /\ ui[k].rendered < MaxRendered
    /\ Overlay(k, render([ui[k] EXCEPT !.shows = @ - 1]))

\* show() after its GET rejected, or resolved with nothing to show
ShowReturns(k) ==
    /\ ui[k].shows > 0
    /\ Overlay(k, [ui[k] EXCEPT !.shows = @ - 1])

\* tolinku.dismissMessage() / dismissBanner(), or a click on the close button
Dismiss(k) ==
    /\ ui[k].removals < MaxRemovals
    /\ Overlay(k, dismiss(ui[k]))

\* a timeout of dismiss() fires
RemovalFires(k) ==
    /\ ui[k].removals > 0
    /\ Overlay(k, removal(ui[k]))

\* ------------------------------------------------------------------------
\* Specifications
\* ------------------------------------------------------------------------
Init == HttpInit /\ AnalyticsInit /\ TolinkuInit

\* SpecHttp: one logical request at a time (the slot is reused once the
\* request has settled), with every response, header, body and jitter of the
\* environment.
RetrySlots == {1}

HttpNext ==
    \/ \E r \in RetrySlots, m \in Methods :
          controllers < MaxControllers /\ Issue(r, m, DefaultPath, NoArg)
    \/ \E r \in RetrySlots, res \in Responses, rnd \in Randoms :
          FetchResponds(r, res, rnd)
    \/ \E r \in RetrySlots, rnd \in Randoms : FetchFails(r, rnd)
    \/ \E r \in RetrySlots : DelayElapses(r)
    \/ Abort
    \/ \E r \in RetrySlots : AbortObserved(r)

SpecHttp == Init /\ [][HttpNext]_vars

\* SpecSession: MaxRequests logical requests overlapping in time, against an
\* environment that answers 200 or 503 without a Retry-After header.
SessionResponses ==
    { [status |-> st, retryAfter |-> NoHeader, body |-> "plainObject"] :
        st \in {200, 503} }

SessionNext ==
    \/ \E r \in Requests : controllers < MaxControllers /\ Issue(r, "get", DefaultPath, NoArg)
    \/ \E r \in Requests, res \in SessionResponses : FetchResponds(r, res, 0)
    \/ \E r \in Requests : DelayElapses(r)
    \/ Abort
    \/ \E r \in Requests : AbortObserved(r)

SpecSession == Init /\ [][SessionNext]_vars

\* SpecUrl: clients constructed with each base URL of BaseUrls, and requests
\* of every method, path and argument that are retried after 503 responses
\* and transport errors.
UrlInit == (\E config \in BaseUrls : Constructed(config)) /\ AnalyticsInit /\ TolinkuInit

UrlNext ==
    \/ \E r \in RetrySlots, m \in Methods, path \in Paths, arg \in Args :
          controllers < MaxControllers /\ Issue(r, m, path, arg)
    \/ \E r \in RetrySlots, res \in SessionResponses : FetchResponds(r, res, 0)
    \/ \E r \in RetrySlots : FetchFails(r, 0)
    \/ \E r \in RetrySlots : DelayElapses(r)

SpecUrl == UrlInit /\ [][UrlNext]_vars

\* SpecRetry: one logical request at a time against a network that fails or
\* answers 200, 400, 429 or 503, with or without a Retry-After header.  Each
\* network call completes and each delay elapses (weak fairness); nothing is
\* aborted.
RetryResponses ==
    [status : {200, 400, 429, 503}, retryAfter : {NoHeader, Header(<<"2">>)},
     body : {"plainObject"}]

RetryNext ==
    \/ \E r \in RetrySlots, m \in Methods :
          controllers < MaxControllers /\ Issue(r, m, DefaultPath, NoArg)
    \/ \E r \in RetrySlots, res \in RetryResponses : FetchResponds(r, res, 0)
    \/ \E r \in RetrySlots : FetchFails(r, 0)
    \/ \E r \in RetrySlots : DelayElapses(r)

\* the outstanding network call of r completes, one way or the other
NetworkCompletes(r) ==
    \/ \E res \in RetryResponses : FetchResponds(r, res, 0)
    \/ FetchFails(r, 0)

RetryFairness ==
    \A r \in RetrySlots : WF_vars(NetworkCompletes(r)) /\ WF_vars(DelayElapses(r))

SpecRetry == Init /\ [][RetryNext]_vars /\ RetryFairness

\* SpecAnalytics: the event batcher, with a client.post that resolves or
\* rejects at any later time.
AnalyticsNext ==
    \/ accepted < MaxEvents /\ Track(DefaultName, Omitted)
    \/ Flush
    \/ Tick
    \/ \E t \in timers : TimerFires(t)
    \/ \E f \in flights, result \in PostResults : PostSucceeds(f, result)
    \/ \E f \in flights, error \in PostErrors : PostFails(f, error)
    \/ \E beacon \in SendBeacon : BeforeUnload(beacon)
    \/ \E beacon \in SendBeacon : Destroy(beacon)

SpecAnalytics == Init /\ [][AnalyticsNext]_vars

\* SpecBrowser: SpecAnalytics in a browser, where navigator.sendBeacon is a
\* function at every teardown.
BrowserNext ==
    \/ accepted < MaxEvents /\ Track(DefaultName, Omitted)
    \/ Flush
    \/ Tick
    \/ \E t \in timers : TimerFires(t)
    \/ \E f \in flights, result \in PostResults : PostSucceeds(f, result)
    \/ \E f \in flights, error \in PostErrors : PostFails(f, error)
    \/ \E beacon \in SendBeacon \ {"unavailable"} : BeforeUnload(beacon)
    \/ \E beacon \in SendBeacon \ {"unavailable"} : Destroy(beacon)

SpecBrowser == Init /\ [][BrowserNext]_vars

\* SpecBuffer: the batcher while the network is down: every POST fails.
\* Until GrowTo events are accepted each POST fails before the next track();
\* from then on track() calls and failures interleave freely.
BufferNext ==
    \/ /\ accepted < MaxBuffered
       /\ accepted < GrowTo => flights = {}
       /\ Track(DefaultName, Omitted)
    \/ \E f \in flights : PostFails(f, "TransportError")

SpecBuffer == Init /\ [][BufferNext]_vars

\* SpecNames: track() with every event name of EventNames, and the flushes
\* and teardowns that send the accepted events.
NamesNext ==
    \/ \E name \in EventNames : accepted < MaxNamed /\ Track(name, Omitted)
    \/ Flush
    \/ \E f \in flights, result \in PostResults : PostSucceeds(f, result)
    \/ \E f \in flights, error \in PostErrors : PostFails(f, error)
    \/ \E beacon \in SendBeacon : BeforeUnload(beacon)
    \/ \E beacon \in SendBeacon : Destroy(beacon)

SpecNames == Init /\ [][NamesNext]_vars

\* SpecDelivery: the batcher left to itself.  The application tracks up to
\* MaxDelivered events and calls nothing else; time passes, timers that are
\* due fire and every POST completes: it fails, or else it succeeds (weak
\* fairness of the clock, of the timer callbacks and of the success of an
\* outstanding POST).  A track() that arms a timer is made only while the
\* run has room for the firing of that timer.
DeliveryNext ==
    \/ /\ accepted < MaxDelivered
       /\ (queue = <<>> /\ flushTimer = 0) => ops < MaxOps
       /\ Track(DefaultName, Omitted)
    \/ Tick
    \/ \E t \in timers : TimerFires(t)
    \/ \E f \in flights : PostSucceeds(f, "ok")
    \/ \E f \in flights : PostFails(f, "TransportError")

DeliveryFairness ==
    /\ WF_vars(Tick)
    /\ WF_vars(\E t \in timers : TimerFires(t))
    /\ WF_vars(\E f \in flights : PostSucceeds(f, "ok"))

SpecDelivery == Init /\ [][DeliveryNext]_vars /\ DeliveryFairness

\* SpecDestroy: the application tracks and flushes, then calls
\* tolinku.destroy() and nothing after it; the callbacks that are pending
\* run: a POST that was not aborted fails or succeeds, an aborted POST
\* rejects.
DestroyNext ==
    \/ unloadHandler /\ accepted < MaxDelivered /\ Track(DefaultName, Omitted)
    \/ unloadHandler /\ Flush
    \/ Tick
    \/ \E t \in timers : TimerFires(t)
    \/ \E f \in flights \ cancelled : PostSucceeds(f, "ok")
    \/ \E f \in flights \ cancelled : PostFails(f, "TransportError")
    \/ \E f \in flights : PostAborted(f)
    \/ \E beacon \in SendBeacon : TolinkuDestroy(beacon)

SpecDestroy == Init /\ [][DestroyNext]_vars

\* SpecOverlay: messages and banners are shown and dismissed in any order,
\* and the timeouts of dismiss() fire at any later time.
OverlayNext ==
    \/ \E k \in Kinds : ShowCalled(k)
    \/ \E k \in Kinds : ShowRenders(k)
    \/ \E k \in Kinds : ShowReturns(k)
    \/ \E k \in Kinds : Dismiss(k)
    \/ \E k \in Kinds : RemovalFires(k)

SpecOverlay == Init /\ [][OverlayNext]_vars

\* SpecTolinku: the application sets user IDs and tracks through
\* Tolinku.track(); the batches are flushed and accepted by the server.
TolinkuNext ==
    \/ \E id \in UserIds : SetUserId(id)
    \/ \E name \in TolinkuNames, props \in PropsArgs :
          accepted < MaxTracked /\ TolinkuTrack(name, props)
    \/ Flush
    \/ \E f \in flights : PostSucceeds(f, "ok")

SpecTolinku == Init /\ [][TolinkuNext]_vars

\* ------------------------------------------------------------------------
\* Claims about HttpClient
\* ------------------------------------------------------------------------
FiveXX(status) == status >= 500 /\ status <= 599
NonRetryable4xx(status) == status >= 400 /\ status <= 499 /\ status # 429
Live(q) == q.pc \in {"fetching", "sleeping"}

\* C1: when every network attempt of a logical request received a 5xx
\* response and nothing was aborted, the request ends after exactly
\* MAX_RETRIES + 1 network calls and the facade raises a TolinkuError that
\* carries the status of the last response.
C1_ExhaustedOn5xxRaisesTolinkuError ==
    \A r \in Requests :
        (req[r].pc = "done" /\ req[r].only5xx /\ req[r].outcome # "AbortError")
        => /\ req[r].calls = MAX_RETRIES + 1
           /\ req[r].outcome = "TolinkuError"
           /\ req[r].status = req[r].resStatus

\* The part of C1 that fetchWithRetry decides: after 5xx responses only, the
\* request ends on the response of its fourth network call.
ExhaustedOn5xxCalls ==
    \A r \in Requests :
        (req[r].pc = "done" /\ req[r].only5xx /\ req[r].outcome # "AbortError")
        => /\ req[r].calls = MAX_RETRIES + 1
           /\ FiveXX(req[r].resStatus)
           /\ req[r].outcome \in {"TolinkuError", "TypeError"}

\* C2: a response with a status in 400..499 other than 429 ends the logical
\* request at once (no retry, no delay), and the facade raises a
\* TolinkuError with that status.
C2_NonRetryable4xxRaisesTolinkuError ==
    \A r \in Requests :
        NonRetryable4xx(req[r].resStatus)
        => /\ req[r].pc = "done"
           /\ req[r].delay = 0
           /\ req[r].outcome = "TolinkuError"
           /\ req[r].status = req[r].resStatus

\* The part of C2 that fetchWithRetry decides: such a response is never
\* followed by a delay or by another network call.
NonRetryable4xxNoRetry ==
    \A r \in Requests :
        NonRetryable4xx(req[r].resStatus)
        => /\ req[r].pc = "done"
           /\ req[r].delay = 0
           /\ req[r].outcome \in {"TolinkuError", "TypeError"}

\* C3: the cancellation session.  Every request that is in flight or in a
\* retry delay holds the signal of the client's current controller, which is
\* not aborted; a request whose rejection by abort() is pending holds an
\* aborted signal; and a step that cancels any request is an abort() of the
\* current controller that cancels every live request at once and discards
\* the controller.
C3_SessionInvariant ==
    /\ abortController \notin aborted
    /\ abortController \in 0..controllers
    /\ \A r \in Requests :
          /\ Live(req[r]) => req[r].signal = abortController /\ req[r].signal # 0
          /\ req[r].pc = "aborting" => req[r].signal \in aborted

C3_AbortStep ==
    \A r \in Requests :
        (aborted' # aborted \/ (req[r].pc # "aborting" /\ req'[r].pc = "aborting"))
        => /\ abortController # 0
           /\ abortController' = 0
           /\ aborted' = aborted \cup {abortController}
           /\ \A r2 \in Requests : Live(req[r2]) => req'[r2].pc = "aborting"
           /\ \A r2 \in Requests : ~Live(req[r2]) => req'[r2] = req[r2]

\* C3: the session invariant holds in every state and every cancelling step
\* is one abort() of the current controller that reaches all live requests.
C3_CancellationSession == []C3_SessionInvariant /\ [][C3_AbortStep]_vars

\* C3 witness: one abort() reached two requests of the same session, one in
\* flight and one in a retry delay.
C3_Witness ==
    \E r1, r2 \in Requests :
        /\ req[r1].pc = "aborting" /\ req[r1].site = "fetch"
        /\ req[r2].pc = "aborting" /\ req[r2].site = "response"
        /\ req[r1].signal = req[r2].signal

\* C4: abort() during a retry delay, in the try block or in the catch block:
\* the delay ends at once, the request rejects with an AbortError and makes
\* no further network call.
C4_AbortDuringDelay ==
    [][\A r \in Requests :
          /\ (req[r].pc = "sleeping" /\ aborted' # aborted)
             => (req'[r].pc = "aborting" /\ req'[r].site = req[r].site)
          /\ (req[r].pc = "aborting" /\ req[r].site \in {"response", "error"}
                /\ req'[r] # req[r])
             => /\ req'[r].pc = "done"
                /\ req'[r].outcome = "AbortError"
                /\ req'[r].calls = req[r].calls]_vars

C4_Witness ==
    \E r \in Requests :
        /\ req[r].pc = "done" /\ req[r].outcome = "AbortError"
        /\ req[r].site = "error" /\ req[r].calls = 2

\* C5: a network call that fails with an AbortError ends the request with
\* that error in its next step, whatever the attempt: no delay is started,
\* no further network call is made and the error is not kept as lastError.
C5_AbortErrorPropagates ==
    [][\A r \in Requests :
          /\ (req[r].pc = "fetching" /\ aborted' # aborted)
             => (req'[r].pc = "aborting" /\ req'[r].site = "fetch")
          /\ (req[r].pc = "aborting" /\ req[r].site = "fetch" /\ req'[r] # req[r])
             => /\ req'[r].pc = "done"
                /\ req'[r].outcome = "AbortError"
                /\ req'[r].calls = req[r].calls
                /\ req'[r].delay = 0
                /\ req'[r].only5xx = req[r].only5xx
                /\ req'[r].onlyErrors = req[r].onlyErrors]_vars

C5_Witness ==
    \E r \in Requests :
        /\ req[r].pc = "done" /\ req[r].outcome = "AbortError"
        /\ req[r].site = "fetch" /\ req[r].calls = MAX_RETRIES + 1

\* C6: a transport error that is not an AbortError is retried while
\* attempts remain; a request ends with a transport error only after
\* MAX_RETRIES + 1 network calls, and then with the error of the last call
\* (not a TolinkuError); when every attempt failed that way this is how the
\* request ends; and an attempt that receives a 2xx response with a JSON
\* body resolves the request with that body.
C6_TransportErrorInvariant ==
    \A r \in Requests :
        /\ (req[r].pc = "sleeping" /\ req[r].site = "error")
           => (req[r].lastError = req[r].calls /\ req[r].attempt < MAX_RETRIES)
        /\ req[r].outcome = "TransportError"
           => (req[r].calls = MAX_RETRIES + 1 /\ req[r].error = req[r].calls)
        /\ (req[r].pc = "done" /\ req[r].onlyErrors /\ req[r].outcome # "AbortError")
           => (req[r].outcome = "TransportError" /\ req[r].calls = MAX_RETRIES + 1)

C6_Step ==
    \A r \in Requests :
        /\ (req[r].pc = "fetching" /\ req'[r].pc = "sleeping"
              /\ req'[r].site = "error")
           => (req'[r].calls = req[r].calls /\ req'[r].attempt = req[r].attempt)
        /\ (req[r].pc = "fetching" /\ req'[r].pc = "done" /\ Ok(req'[r].resStatus))
           => \A res \in Responses, rnd \in Randoms :
                 (res.status = req'[r].resStatus /\ res.body # "invalid"
                    /\ FetchResponds(r, res, rnd))
                 => (req'[r].outcome = "resolved" /\ req'[r].message = res.body)

\* C6: transport errors are retried while attempts remain, the last one is
\* raised after MAX_RETRIES + 1 calls, and a later 2xx response with a JSON
\* body resolves the request.
C6_TransportErrorsRetried == []C6_TransportErrorInvariant /\ [][C6_Step]_vars

C6_Witness ==
    \E r \in Requests :
        /\ req[r].pc = "done" /\ req[r].outcome = "TransportError"
        /\ req[r].onlyErrors /\ req[r].error = MAX_RETRIES + 1

\* The Retry-After header h of a response is a number of seconds.
NumericSeconds(h) ==
    h.present /\ h.text # <<>> /\ ~Number(h.text).nan /\ Number(h.text).val >= 0

Seconds(h) == Number(h.text).val

\* The request waits for the retry after a 429 response.
After429(q) == q.pc = "sleeping" /\ q.site = "response" /\ q.resStatus = 429

\* C7 as stated: after a 429 response whose Retry-After is a number h of
\* seconds, with attempts remaining, the delay is exactly h * 1000 ms.
C7_RetryAfterAnyNumber ==
    \A r \in Requests :
        (After429(req[r]) /\ NumericSeconds(req[r].resRetryAfter))
        => req[r].delay = Seconds(req[r].resRetryAfter) * 1000

\* C7 amended: after a 429 response whose Retry-After is a positive number h
\* of seconds, with attempts remaining, the delay is exactly h * 1000 ms,
\* whatever the attempt index and the value of Math.random().
C7_RetryAfterPositive ==
    \A r \in Requests :
        (After429(req[r]) /\ NumericSeconds(req[r].resRetryAfter)
            /\ Seconds(req[r].resRetryAfter) > 0)
        => req[r].delay = Seconds(req[r].resRetryAfter) * 1000

C7_Witness ==
    \E r \in Requests :
        /\ After429(req[r]) /\ req[r].resRetryAfter = Header(<<"1", "0">>)
        /\ req[r].attempt = 2 /\ req[r].rnd = 98 /\ req[r].delay = 10000

\* The delay the request waits in follows an attempt that gave no
\* rate-limit hint: a transport error, a response other than 429, or a 429
\* whose Retry-After is missing or not a number.
Unhinted(q) ==
    /\ q.pc = "sleeping"
    /\ \/ q.site = "error"
       \/ q.resStatus # 429
       \/ ~q.resRetryAfter.present
       \/ q.resRetryAfter.text = <<>>
       \/ Number(q.resRetryAfter.text).nan

\* C8: without a hint the delay before retry number a (a = 0, 1, 2: the
\* number of network calls made so far, less one) is BASE_DELAY_MS * 2^a plus
\* a jitter in 0..MAX_JITTER_MS; with Math.random() = 0 it is 500, 1000,
\* 2000 ms.
C8_ExponentialBackoff ==
    \A r \in Requests :
        Unhinted(req[r])
        => LET a == req[r].calls - 1
               jitter == req[r].delay - BASE_DELAY_MS * Pow2(a)
           IN  /\ a \in 0..(MAX_RETRIES - 1)
               /\ a = req[r].attempt
               /\ jitter >= 0 /\ jitter <= MAX_JITTER_MS
               /\ jitter * 100 = req[r].rnd * MAX_JITTER_MS
               /\ req[r].rnd = 0 => req[r].delay = <<500, 1000, 2000>>[a + 1]

C8_Witness ==
    \E r \in Requests :
        /\ Unhinted(req[r]) /\ req[r].site = "response" /\ req[r].resStatus = 429
        /\ req[r].calls = 3 /\ req[r].rnd = 0 /\ req[r].delay = 2000

\* ------------------------------------------------------------------------
\* Claims about Analytics
\* ------------------------------------------------------------------------
\* C9: in every state between two handlers, a flush timer is armed if and
\* only if the queue is not empty.
C9_TimerArmedIffQueueNonEmpty ==
    (flushTimer # 0 /\ flushTimer \in timers) <=> (Len(queue) > 0)

\* C10: a track() that brings the queue to BATCH_SIZE events or more starts
\* exactly one POST, whose snapshot is the whole queue in order, leaves the
\* queue empty and no flush timer pending; a track() that leaves the queue
\* shorter than BATCH_SIZE starts no POST.
C10_TrackStep ==
    accepted' = accepted + 1
    => LET all == Append(queue, accepted + 1)
       IN  IF Len(all) >= BATCH_SIZE
           THEN /\ [events |-> all, by |-> "track"] \notin flights
                /\ flights' = flights \cup {[events |-> all, by |-> "track"]}
                /\ queue' = <<>>
                /\ flushTimer' = 0
                /\ timers' = timers \ {flushTimer}
           ELSE /\ flights' = flights
                /\ queue' = all

\* C10: every track() step flushes exactly when the queue reaches BATCH_SIZE.
C10_BatchSizeTriggersFlush == [][C10_TrackStep]_vars

\* C10 witness: ten track() calls and nothing else: one POST with the ten
\* events is outstanding, the queue is empty and no timer is pending.
C10_Witness ==
    /\ accepted = BATCH_SIZE /\ ops = 0
    /\ flights = {[events |-> <<1, 2, 3, 4, 5, 6, 7, 8, 9, 10>>, by |-> "track"]}
    /\ queue = <<>> /\ flushTimer = 0 /\ timers = {}

\* C11: a track() accepted with an empty queue and no timer queues the
\* event, sends nothing and sets the flush timer to FLUSH_INTERVAL_MS; the
\* passing of time sends nothing; the timer fires only when
\* FLUSH_INTERVAL_MS have passed since it was set, and, the queue still
\* holding that one event, its callback starts exactly one POST, with
\* exactly that event, and leaves the queue empty and no timer set.
C11_Step ==
    /\ (accepted' = accepted + 1 /\ queue = <<>> /\ flushTimer = 0 /\ timers = {})
       => /\ queue' = <<accepted + 1>>
          /\ flights' = flights
          /\ flushTimer' # 0
          /\ timers' = {flushTimer'}
          /\ remaining'[flushTimer'] = FLUSH_INTERVAL_MS
          /\ waited'[flushTimer'] = 0
    /\ Tick => (flights' = flights /\ queue' = queue /\ timers' = timers)
    /\ \A t \in timers :
          TimerFires(t)
          => /\ waited[t] = FLUSH_INTERVAL_MS
             /\ Len(queue) = 1
                => /\ flights' = flights \cup {[events |-> queue, by |-> "timer"]}
                   /\ [events |-> queue, by |-> "timer"] \notin flights
                   /\ queue' = <<>>
                   /\ flushTimer' = 0
                   /\ timers' = {}

C11_TimerFlushAfterInterval == [][C11_Step]_vars

\* C11 witness: one track(), then FLUSH_INTERVAL_MS of time and nothing
\* else: the timer has fired and one POST with that event is outstanding.
C11_Witness ==
    /\ accepted = 1 /\ ops = 1
    /\ flights = {[events |-> <<1>>, by |-> "timer"]}
    /\ queue = <<>> /\ flushTimer = 0 /\ timers = {}

\* The POST of flight f completed in this step and client.post had settled
\* as post says: "rejected" or "resolved".
Completes(f, post) ==
    f \in flights /\ flights' = flights \ {f} /\ settled'.post = post

\* The step starts a POST without accepting an event: a flush() of the
\* application or of the timer callback.
StartsPost == flights' \ flights # {} /\ accepted' = accepted

\* C12: a POST that rejects while the queue is empty (no track() meanwhile)
\* leaves the queue holding exactly the snapshot, in its order; the next
\* flush sends exactly the queue, in its order, and takes it all; and when
\* the POST of a flush resolves the queue is left as it is, so that it is
\* empty when no track() happened meanwhile.
C12_Step ==
    /\ \A f \in flights :
          (Completes(f, "rejected") /\ queue = <<>>) => queue' = f.events
    /\ StartsPost
       => /\ \E by \in {"flush", "timer"} :
                flights' = flights \cup {[events |-> queue, by |-> by]}
          /\ queue' = <<>>
    /\ \A f \in flights : Completes(f, "resolved") => queue' = queue

C12_RequeueThenResend == [][C12_Step]_vars

\* The part of C12 that holds: its steps when client.post does not resolve
\* with null.
RequeueThenResendStep ==
    /\ \A f \in flights :
          (Completes(f, "rejected") /\ queue = <<>>) => queue' = f.events
    /\ StartsPost
       => /\ \E by \in {"flush", "timer"} :
                flights' = flights \cup {[events |-> queue, by |-> by]}
          /\ queue' = <<>>
    /\ \A f \in flights :
          (Completes(f, "resolved") /\ gone'.delivered \cap Range(queue') = {})
          => queue' = queue

RequeueThenResend == [][RequeueThenResendStep]_vars

\* C13: when the POST of a flush rejects, the queue becomes the failed
\* snapshot, in its order, followed by the events queued during the round
\* trip, in their order (less the events the bound on the queue drops from
\* the front).
C13_Step ==
    \A f \in flights :
        Completes(f, "rejected")
        => LET all == f.events \o queue
           IN  IF Len(all) <= MAX_QUEUE_SIZE
               THEN queue' = all
               ELSE queue' = SubSeq(all, Len(all) - MAX_QUEUE_SIZE + 1, Len(all))

C13_FailedSnapshotAtFront == [][C13_Step]_vars

\* C13 witness: ten track() calls started a POST, an eleventh event was
\* accepted during the round trip, then the POST rejected: the queue reads
\* snapshot, then the eleventh event.
C13_Witness ==
    /\ accepted = BATCH_SIZE + 1 /\ ops = 0 /\ flights = {}
    /\ settled.by = "track" /\ settled.post = "rejected"
    /\ queue = <<1, 2, 3, 4, 5, 6, 7, 8, 9, 10, 11>>

\* C14: between any two handlers the queue holds at most MAX_QUEUE_SIZE
\* events, whatever the interleaving of track() calls, overlapping flushes
\* and their failures.
C14_BoundedBuffer == Len(queue) <= MAX_QUEUE_SIZE

\* C14 witness: a failed flush put back more than the queue may hold: events
\* were dropped and the queue is full.
C14_Witness == gone.dropped # {} /\ Len(queue) = MAX_QUEUE_SIZE

\* C15: the events the bound on the queue drops are the earliest accepted
\* ones: every dropped event was accepted before every event that is kept.
C15_DropOldest ==
    \A d \in gone.dropped : \A i \in DOMAIN queue : d < queue[i]

\* The events that are in the snapshot of an outstanding POST, and the
\* events that are in the batcher: queued or in such a snapshot.
FlightEvents == UNION { Range(f.events) : f \in flights }
Present == Range(queue) \cup FlightEvents

\* Every event in the batcher is an accepted event and is there once: once
\* in the queue or once in one snapshot.
PresentOnce ==
    /\ Present \subseteq 1..accepted
    /\ Cardinality(Range(queue)) = Len(queue)
    /\ \A f \in flights :
          /\ Cardinality(Range(f.events)) = Len(f.events)
          /\ Range(f.events) \cap Range(queue) = {}
          /\ \A g \in flights : g # f => Range(f.events) \cap Range(g.events) = {}

\* The event the step accepted, if it accepted one.
Accepted == IF accepted' > accepted THEN {accepted'} ELSE {}

\* C16, in a browser: an accepted event is in exactly one place.  While it is in the
\* batcher it is there once; it leaves the batcher in one way only --
\* delivered by a POST that resolved, handed to the beacon, or dropped by the
\* bound on the queue -- and it is then nowhere in the batcher; no step
\* loses an event or brings back one that left; and the snapshot of a POST
\* is the queue as flush() found it, so that an event accepted later is not
\* part of it.
C16_Places ==
    /\ PresentOnce
    /\ gone.discarded = {}
    /\ gone.delivered \cap Present = {}
    /\ gone.beaconed \cap Present = {}
    /\ gone.dropped \cap Present = {}
    /\ gone.delivered \cap gone.dropped = {}

C16_Step ==
    /\ Present' \cup gone'.delivered \cup gone'.beaconed \cup gone'.dropped
          = Present \cup Accepted
    /\ \A f \in flights' \ flights :
          Range(f.events) \subseteq Range(queue) \cup Accepted

C16_EventConservation == []C16_Places /\ [][C16_Step]_vars

\* The part of C16 that holds: with the events flushBeacon() throws away
\* when there is no navigator.sendBeacon counted as a further place, and
\* apart from the snapshot that is put back after its POST resolved with
\* null (then its events are delivered and queued again).
ConservationPlaces ==
    /\ PresentOnce
    /\ gone.beaconed \cap Present = {}
    /\ gone.discarded \cap Present = {}
    /\ gone.dropped \cap Present = {}
    /\ gone.delivered \cap Present # {}
       => (settled.post = "resolved" /\ gone.delivered \subseteq Range(queue))

ConservationStep ==
    /\ Present' \cup gone'.delivered \cup gone'.beaconed \cup gone'.dropped
          \cup gone'.discarded = Present \cup Accepted
    /\ \A f \in flights' \ flights :
          Range(f.events) \subseteq Range(queue) \cup Accepted

Conservation == []ConservationPlaces /\ [][ConservationStep]_vars

\* C17: when the POST of a flush resolves, whatever the body and also with
\* a non-empty errors list, the events of its snapshot are in the batcher no
\* more and the queue is as it was: it holds only events accepted after the
\* snapshot was taken.
C17_Step ==
    \A f \in flights :
        Completes(f, "resolved")
        => /\ Range(f.events) \cap Present' = {}
           /\ queue' = queue

C17_SuccessDiscardsSnapshot == [][C17_Step]_vars

\* The part of C17 that holds: client.post resolved with an object, with or
\* without a list of errors.
SuccessWithObjectStep ==
    \A f \in flights, result \in PostResults \ {"null"} :
        PostSucceeds(f, result)
        => /\ Range(f.events) \cap Present' = {}
           /\ queue' = queue
           /\ gone'.delivered = Range(f.events)

SuccessWithObjectDiscardsSnapshot == [][SuccessWithObjectStep]_vars

\* C18: the promise of track() rejects for an event name only.  When the
\* POST of the flush that track() started at the batch threshold rejects,
\* with whatever error, the snapshot is put back at the front of the queue
\* and the promise of track() resolves.
C18_Settled ==
    /\ settled.promise = "rejected"
       => (settled.by = "track" /\ settled.post = "none" /\ settled.error # "none")
    /\ (settled.by = "track" /\ settled.post = "rejected")
       => settled.promise = "resolved"

C18_Step ==
    \A f \in flights, error \in PostErrors :
        (f.by = "track" /\ PostFails(f, error))
        => /\ settled'.by = "track"
           /\ settled'.promise = "resolved"
           /\ Len(f.events) + Len(queue) <= MAX_QUEUE_SIZE
              => queue' = f.events \o queue

C18_TrackCapturesFlushFailure == []C18_Settled /\ [][C18_Step]_vars

\* C18 witness: the tenth track() started a POST, the POST rejected, and the
\* promise of that track() resolved with the ten events queued again.
C18_Witness ==
    /\ accepted = BATCH_SIZE /\ ops = 0
    /\ settled = [by |-> "track", post |-> "rejected", promise |-> "resolved",
                  error |-> "none"]
    /\ queue = <<1, 2, 3, 4, 5, 6, 7, 8, 9, 10>>

\* C19 as stated: when the POST of a flush() the application called
\* rejects, the promise of that flush() rejects.
C19_FlushPropagatesFailure ==
    (settled.by = "flush" /\ settled.post = "rejected")
    => settled.promise = "rejected"

\* C19 amended: when the POST of a flush() the application called rejects,
\* the snapshot is put back at the front of the queue and the promise of
\* that flush() resolves.
C19_FlushSettled ==
    (settled.by = "flush" /\ settled.post = "rejected")
    => settled.promise = "resolved"

C19_Step ==
    \A f \in flights :
        (f.by = "flush" /\ Completes(f, "rejected"))
        => /\ settled'.by = "flush"
           /\ Len(f.events) + Len(queue) <= MAX_QUEUE_SIZE
              => queue' = f.events \o queue

C19_FlushCapturesFailure == []C19_FlushSettled /\ [][C19_Step]_vars

\* C19 witness: two events, one flush() of the application, its POST
\* rejected: both events are queued again and the promise resolved.
C19_Witness ==
    /\ accepted = 2 /\ ops = 1
    /\ settled = [by |-> "flush", post |-> "rejected", promise |-> "resolved",
                  error |-> "none"]
    /\ queue = <<1, 2>>

\* An event name track() must reject: not a string, empty or white space
\* only, or a name whose form with the prefix custom. is not custom.
\* followed by one or more of a-z, 0-9 and _.
AllWhiteSpace(t) == \A i \in DOMAIN t : t[i] \in WhiteSpace

WithPrefix(t) ==
    IF Len(t) >= 7 /\ SubSeq(t, 1, 7) = CustomPrefix THEN t ELSE CustomPrefix \o t

MatchesCustom(t) ==
    /\ Len(t) >= 8
    /\ SubSeq(t, 1, 7) = CustomPrefix
    /\ \A i \in 8..Len(t) : t[i] \in NameChars

InvalidName(name) ==
    \/ ~name.string
    \/ AllWhiteSpace(name.text)
    \/ ~MatchesCustom(WithPrefix(name.text))

\* C20: track() with an invalid name rejects with a validation error and
\* changes neither the queue nor the flush timer nor anything else of the
\* batcher; a track() that is accepted has a valid name; so every event of
\* every batch, posted or beaconed, has an event_type of the form
\* custom.[a-z0-9_]+.
C20_Names ==
    /\ Len(eventType) = accepted
    /\ \A e \in 1..accepted : MatchesCustom(eventType[e])
    /\ FlightEvents \cup gone.beaconed \cup gone.delivered \subseteq 1..accepted

C20_Step ==
    \A name \in EventNames :
        Track(name, Omitted)
        => IF InvalidName(name)
           THEN /\ settled'.by = "track"
                /\ settled'.promise = "rejected"
                /\ settled'.error # "none"
                /\ UNCHANGED <<queue, flushTimer, timers, remaining, flights,
                               accepted, eventType>>
           ELSE /\ accepted' = accepted + 1
                /\ eventType'[accepted'] = WithPrefix(name.text)
                /\ settled'.promise # "rejected"

C20_InvalidNamesRejected == []C20_Names /\ [][C20_Step]_vars

\* C20 witness: with one event queued and its timer set, and one event in
\* an outstanding POST, a track() was rejected for its name.
C20_Witness ==
    /\ accepted = 2 /\ Len(queue) = 1 /\ flushTimer \in timers
    /\ Cardinality(flights) = 1
    /\ settled.promise = "rejected" /\ settled.error = "event name is invalid"

\* The properties analytics.track() is called with by Tolinku.track().
TrackedProps == { mergedProps(id, props) : id \in UserIds, props \in PropsArgs }

\* The last event a step queued is at the tail of the queue, or at the tail
\* of the snapshot the threshold flush of the same track() took.
AtTail ==
    \/ queue' = Append(queue, accepted')
    \/ /\ queue' = <<>>
       /\ \E f \in flights' \ flights : f.events = Append(queue, accepted')

C21_Step ==
    accepted' = accepted + 1
    => \A name \in TolinkuNames, props \in TrackedProps :
        Track(name, props)
        => /\ eventType'[accepted'] =
                 IF startsWith(name.text, CustomPrefix)
                 THEN name.text ELSE CustomPrefix \o name.text
           /\ ~startsWith(eventType'[accepted'], CustomPrefix \o CustomPrefix)
           /\ properties'[accepted'] = IF props.given THEN props.map ELSE EmptyMap
           /\ AtTail

C21_Queued ==
    /\ Len(eventType) = accepted
    /\ Len(properties) = accepted
    /\ \A e \in 1..accepted : MatchesCustom(eventType[e])

\* C21: an accepted track(name, props) queues the event_type name when name
\* starts with custom. and custom. + name otherwise, never with the prefix
\* twice; every queued event_type has the form custom.[a-z0-9_]+; the queued
\* properties are props, or the empty map when props is omitted; and the
\* event is appended at the tail of the queue.
C21_QueuedEvent == []C21_Queued /\ [][C21_Step]_vars

\* C21 witness: track('custom.a', { plan: 'g' }) and track('b') were
\* accepted and are queued in that order.
C21_Witness ==
    /\ accepted = 2 /\ queue = <<1, 2>>
    /\ eventType = <<CustomPrefix \o <<"a">>, CustomPrefix \o <<"b">> >>
    /\ properties = << [k \in {"plan"} |-> Str(<<"g">>)], EmptyMap >>

C22_Step ==
    /\ (Flush /\ queue = <<>>)
       => (flights' = flights /\ queue' = <<>> /\ gone' = NothingGone)
    /\ \A t \in timers :
          (TimerFires(t) /\ queue = <<>>)
          => (flights' = flights /\ queue' = <<>> /\ gone' = NothingGone)

\* C22: flush() on an empty queue starts no POST, hands nothing to the
\* beacon and leaves the queue empty, and so does a flush timer that fires
\* when the queue is empty.
C22_EmptyFlushIsNoOp == [][C22_Step]_vars

\* C22 witness: the flush timer fired on an empty queue (the teardown
\* delivery took the only event while the timer was armed) and its flush()
\* returned without a POST.
C22_Witness ==
    /\ settled = Returned("timer")
    /\ accepted = 1 /\ queue = <<>> /\ flights = {} /\ timers = {}

\* The same for a flush() of the application before any track().
EmptyFlushReturned ==
    /\ settled = Returned("flush")
    /\ accepted = 0 /\ queue = <<>> /\ flights = {}

C23_Step ==
    \A beacon \in SendBeacon :
        Destroy(beacon)
        => /\ queue' = <<>>
           /\ flushTimer' = 0 /\ flushTimer \notin timers'
           /\ ~unloadHandler'
           /\ flights' = flights
           /\ gone'.beacons =
                 IF queue # <<>> /\ beacon # "unavailable"
                 THEN << [events |-> queue, apiKey |-> ApiKey, queued |-> beacon = "true"] >>
                 ELSE <<>>
           /\ (~unloadHandler /\ queue = <<>> /\ flushTimer = 0)
              => /\ UNCHANGED <<flushTimer, timers, remaining, waited, unloadHandler>>
                 /\ gone' = NothingGone

\* destroy() after destroy(): the second call finds the state the first one
\* left, hands nothing to the beacon and leaves that state.
C23_Idempotent ==
    \A first \in SendBeacon, second \in SendBeacon :
        LET once == [destroy(AnalyticsState, first) EXCEPT !.gone = NothingGone]
        IN  destroy(once, second) = once

C24_Step ==
    /\ Present' \subseteq Present \cup Accepted
    /\ \A beacon \in SendBeacon :
          (BeforeUnload(beacon) \/ Destroy(beacon))
          => /\ queue' = <<>>
             /\ flights' = flights
             /\ gone'.delivered = {} /\ gone'.dropped = {}
             /\ IF queue = <<>>
                THEN gone' = NothingGone
                ELSE IF beacon = "unavailable"
                THEN gone'.beacons = <<>>
                ELSE gone'.beacons =
                       << [events |-> queue, apiKey |-> ApiKey, queued |-> beacon = "true"] >>

\* C24: the teardown delivery takes all queued events and makes at most one
\* sendBeacon call, whose body holds exactly these events and the API key;
\* it starts no POST, and the events never come back into the queue or into
\* a later batch, whether sendBeacon is missing, returns false or returns
\* true; with an empty queue it makes no call.
C24_BeaconFireAndForget == [][C24_Step]_vars

\* C24 witness: on beforeunload the queued event went into a sendBeacon call
\* that returned false; the queue is empty.
C24_Witness ==
    /\ unloadHandler /\ queue = <<>> /\ flights = {}
    /\ gone.beacons = << [events |-> <<1>>, apiKey |-> ApiKey, queued |-> FALSE] >>

\* ------------------------------------------------------------------------
\* Claims about the facade and the retry decision of HttpClient
\* ------------------------------------------------------------------------
\* fetchWithRetry returned a response to the facade method of request q, and
\* the promise of the method has settled.
FinalResponse(q) == q.pc = "done" /\ q.outcome # "AbortError" /\ q.resStatus # 0

\* C25: for each of the four facade methods, a final response that is not
\* successful makes the method raise a TolinkuError with the status of the
\* response and with the error field of the parsed JSON body as message, or
\* with the status text when the body is not JSON or has no error field; for
\* every JSON body.
C25_NonSuccessRaisesTolinkuError ==
    \A r \in Requests :
        (FinalResponse(req[r]) /\ ~Ok(req[r].resStatus))
        => /\ req[r].outcome = "TolinkuError"
           /\ req[r].status = req[r].resStatus
           /\ req[r].message =
                 IF req[r].resBody = "errorObject" THEN "body.error" ELSE "statusText"

\* The same for every body but the JSON value null.
NonSuccessRaisesUnlessNull ==
    \A r \in Requests :
        (FinalResponse(req[r]) /\ ~Ok(req[r].resStatus) /\ req[r].resBody # "null")
        => /\ req[r].outcome = "TolinkuError"
           /\ req[r].status = req[r].resStatus
           /\ req[r].message =
                 IF req[r].resBody = "errorObject" THEN "body.error" ELSE "statusText"

\* C26: a final response that is successful and whose body is not JSON makes
\* the facade raise a TolinkuError with the message 'Invalid JSON in response
\* body' and the status of the response, unlike the error of a non-successful
\* response; a successful response ends the request, so the parse failure
\* causes no delay and no further network call.
C26_InvalidJsonOnSuccess ==
    \A r \in Requests :
        /\ (FinalResponse(req[r]) /\ Ok(req[r].resStatus) /\ req[r].resBody = "invalid")
           => /\ req[r].outcome = "TolinkuError"
              /\ req[r].message = "Invalid JSON in response body"
              /\ req[r].status = req[r].resStatus
        /\ (FinalResponse(req[r]) /\ ~Ok(req[r].resStatus))
           => req[r].message # "Invalid JSON in response body"
        /\ Ok(req[r].resStatus) => (req[r].pc = "done" /\ req[r].delay = 0)

\* C26 witness: the second network call of a request was answered with
\* status 299 and a body that is not JSON, and the facade raised.
C26_Witness ==
    /\ req[1].pc = "done" /\ req[1].calls = 2
    /\ req[1].resStatus = 299 /\ req[1].resBody = "invalid"
    /\ req[1].outcome = "TolinkuError"

\* C27: every network call of get and post, retries included, carries the
\* X-API-Key header with the configured key; no network call of getPublic and
\* postPublic carries it (getPublic sends no headers, postPublic only
\* Content-Type); and every retry is sent with the method, URL, headers and
\* body of the first network call of its request.
C27_ApiKeyHeader ==
    \A r \in Requests :
        req[r].calls >= 1
        => LET sent == req[r].sent.init.headers
           IN  /\ req[r].sent = req[r].first
               /\ req[r].method \in {"get", "post"}
                  => /\ sent.given
                     /\ "X-API-Key" \in DOMAIN sent.map
                     /\ sent.map["X-API-Key"] = ApiKey
               /\ req[r].method = "getPublic" => ~sent.given
               /\ req[r].method = "postPublic"
                  => (sent.given /\ DOMAIN sent.map = {"Content-Type"})

\* C27 witness: the fourth network call of a post with a body is
\* outstanding; it carries the API key.
C27_Witness ==
    /\ req[1].pc = "fetching" /\ req[1].calls = MAX_RETRIES + 1
    /\ req[1].method = "post"
    /\ req[1].sent.init.body = "{k:v}"
    /\ req[1].sent.init.headers.map["X-API-Key"] = ApiKey

\* s ends in a slash
EndsInSlash(s) == s # <<>> /\ s[Len(s)] = "/"

\* s is t followed by slashes only
SlashesAfter(s, t) ==
    /\ Len(t) <= Len(s)
    /\ SubSeq(s, 1, Len(t)) = t
    /\ \A i \in (Len(t) + 1)..Len(s) : s[i] = "/"

\* C28: the constructor stores the base URL without its trailing slashes
\* (h://x/// becomes h://x); the stored base URL never ends in a slash;
\* stripping it again changes nothing; and the URL of every network call is
\* the stored base URL followed by the path, with one slash at the join.
C28_BaseUrlNormalized ==
    /\ SlashesAfter(configBaseUrl, baseUrl)
    /\ ~EndsInSlash(baseUrl)
    /\ stripTrailingSlashes(baseUrl) = baseUrl
    /\ configBaseUrl = DefaultBaseUrl \o <<"/", "/", "/">> => baseUrl = DefaultBaseUrl
    /\ \A r \in Requests :
          req[r].calls >= 1
          => LET sent == req[r].sent.url
                 n    == Len(baseUrl)
             IN  /\ Len(sent) > n
                 /\ SubSeq(sent, 1, n) = baseUrl
                 /\ sent[n + 1] = "/"
                 /\ n >= 1 => sent[n] # "/"

\* C28 witness: a client constructed with h://x/// retries a request to
\* h://x/v1.
C28_Witness ==
    /\ configBaseUrl = DefaultBaseUrl \o <<"/", "/", "/">>
    /\ req[1].calls = 2
    /\ req[1].sent.url = DefaultBaseUrl \o DefaultPath

\* ------------------------------------------------------------------------
\* Claims about Tolinku
\* ------------------------------------------------------------------------
\* The properties the event queued by this step carries.
Queued == properties'[accepted']

HasUserId(m) == "user_id" \in DOMAIN m

C29_Step ==
    \A name \in TolinkuNames, props \in PropsArgs :
        (TolinkuTrack(name, props) /\ accepted' = accepted + 1)
        => IF userId # NonString
           THEN HasUserId(Queued) /\ Queued["user_id"] = userId
           ELSE Queued = queuedProperties(props)

\* C29: while a user ID is set (not null), every event queued through
\* Tolinku.track() carries properties.user_id equal to the user ID set at
\* the time of the call, whatever the properties argument is; while the user
\* ID is null, the properties are queued as they were passed.
C29_UserIdInjected == [][C29_Step]_vars

\* What Tolinku.track() does: the user ID is added when it is a non-empty
\* string and the caller passes no user_id of its own; a user_id of the
\* caller is kept; with null or the empty string nothing is added.
UserIdInjectedUnlessGivenStep ==
    \A name \in TolinkuNames, props \in PropsArgs :
        (TolinkuTrack(name, props) /\ accepted' = accepted + 1)
        => IF userId = NonString \/ userId.text = <<>>
           THEN Queued = queuedProperties(props)
           ELSE /\ HasUserId(Queued)
                /\ Queued["user_id"] =
                      IF props.given /\ HasUserId(props.map)
                      THEN props.map["user_id"] ELSE userId
                /\ \A k \in DOMAIN Queued \ {"user_id"} :
                      props.given /\ k \in DOMAIN props.map /\ Queued[k] = props.map[k]

UserIdInjectedUnlessGiven == [][UserIdInjectedUnlessGivenStep]_vars

\* ------------------------------------------------------------------------
\* Claims about the retry decision of fetchWithRetry
\* ------------------------------------------------------------------------
Retryable(status) == status = 429 \/ FiveXX(status)

\* C30: a response is followed by a retry exactly when its status is 429 or
\* in 500..599 and attempts remain; after a response with any other status
\* (2xx, another 4xx, 1xx, 3xx) the request is handed to the facade at once,
\* with no delay and no further network call.
C30_RetryIffRetryableStatus ==
    \A r \in Requests :
        /\ (req[r].pc = "sleeping" /\ req[r].site = "response")
           => Retryable(req[r].resStatus)
        /\ (FinalResponse(req[r]) /\ Retryable(req[r].resStatus))
           => req[r].calls = MAX_RETRIES + 1
        /\ (req[r].resStatus # 0 /\ ~Retryable(req[r].resStatus))
           => (req[r].pc = "done" /\ req[r].delay = 0)

\* What fetchWithRetry does: a response is handed to the facade at once
\* exactly when it is 2xx or a 4xx other than 429; after every other status
\* the request waits and retries while attempts remain.
RetryUnlessOkOrTerminal4xx ==
    \A r \in Requests :
        LET returned == Ok(req[r].resStatus) \/ NonRetryable4xx(req[r].resStatus)
        IN  /\ (req[r].pc = "sleeping" /\ req[r].site = "response") => ~returned
            /\ (FinalResponse(req[r]) /\ ~returned) => req[r].calls = MAX_RETRIES + 1
            /\ (req[r].resStatus # 0 /\ returned)
               => (req[r].pc = "done" /\ req[r].delay = 0)

\* ------------------------------------------------------------------------
\* Claims about the retry loop of fetchWithRetry
\* ------------------------------------------------------------------------
C32_Bounded ==
    \A r \in Requests :
        /\ req[r].calls <= MAX_RETRIES + 1
        /\ req[r].attempt \in 0..MAX_RETRIES
        /\ Live(req[r]) => req[r].calls = req[r].attempt + 1
        /\ req[r].pc = "sleeping" => req[r].attempt < MAX_RETRIES
        /\ req[r].pc = "done"
           => /\ req[r].outcome \in {"resolved", "TolinkuError", "TypeError",
                                     "TransportError"}
              /\ req[r].delay = 0

C32_Step ==
    \A r \in Requests :
        /\ (req[r].pc \in {"idle", "done"} /\ req'[r].pc = "fetching")
           => (req'[r].attempt = 0 /\ req'[r].calls = 1)
        /\ (req[r].pc = "fetching" /\ req[r].calls = MAX_RETRIES + 1
              /\ req'[r] # req[r])
           => req'[r].pc = "done"

C32_Terminates == \A r \in RetrySlots : Live(req[r]) ~> (req[r].pc = "done")

\* C32: whatever transport errors and retryable responses a logical request
\* meets, it makes at most MAX_RETRIES + 1 network calls; its attempt index
\* is in 0..MAX_RETRIES, one less than the number of calls made, and 0 at the
\* first call of each request; no delay follows the last attempt; and when
\* every network call completes and every delay elapses the request ends:
\* it resolves or raises.
C32_BoundedRetries == []C32_Bounded /\ [][C32_Step]_vars /\ C32_Terminates

\* C32 witness: a request ended on the transport error of its fourth
\* network call, after an earlier call had received a response.
C32_Witness ==
    \E r \in Requests :
        /\ req[r].pc = "done" /\ req[r].calls = MAX_RETRIES + 1
        /\ req[r].outcome = "TransportError" /\ ~req[r].onlyErrors

\* The network calls of request q that are outstanding: the one it awaits.
Outstanding(q) == IF q.pc = "fetching" THEN 1 ELSE 0

C33_Sequential ==
    \A r \in Requests :
        /\ Outstanding(req[r]) <= 1
        /\ Live(req[r]) => req[r].calls = req[r].attempt + 1
        /\ req[r].pc = "sleeping" => (req[r].delay > 0 /\ Outstanding(req[r]) = 0)

C33_Step ==
    \A r \in Requests :
        \* a retry is issued by the elapsed delay of the attempt before it
        /\ (req'[r].calls = req[r].calls + 1 /\ req'[r].calls > 1)
           => /\ req[r].pc = "sleeping"
              /\ req'[r].attempt = req[r].attempt + 1
        \* while a call is outstanding, no other call of the request is made
        /\ req[r].pc = "fetching" => req'[r].calls = req[r].calls
        \* a first call starts a logical request in a free slot
        /\ (req'[r].calls = 1 /\ req'[r].pc = "fetching" /\ req[r].pc # "fetching")
           => (req[r].pc \in {"idle", "done"} /\ req'[r].attempt = 0)
        \* a step of one request leaves the other requests as they are
        /\ (req'[r] # req[r] /\ aborted' = aborted)
           => \A r2 \in Requests \ {r} : req'[r2] = req[r2]
        \* abort() is the one step that reaches several requests; it changes
        \* nothing but the await they are suspended at
        /\ (req'[r] # req[r] /\ aborted' # aborted)
           => (Live(req[r]) /\ req'[r] = [req[r] EXCEPT !.pc = "aborting"])

\* C33: a logical request has at most one network call outstanding; call
\* k + 1 is made only by the step in which the delay after call k elapses;
\* each request counts its own attempts, and a step of one request changes
\* no other request: only abort() reaches several requests at once.
C33_OneAttemptOutstanding == []C33_Sequential /\ [][C33_Step]_vars

\* C33 witness: of two requests of one session, one waits for its third
\* retry while the other awaits its first network call.
C33_Witness ==
    /\ req[1].pc = "sleeping" /\ req[1].attempt = 2 /\ req[1].calls = 3
    /\ req[2].pc = "fetching" /\ req[2].attempt = 0 /\ req[2].calls = 1
    /\ req[1].signal = req[2].signal

\* ------------------------------------------------------------------------
\* Claims about the retry delay
\* ------------------------------------------------------------------------
\* The text t is a decimal numeral of a positive number: digits only, not
\* all of them 0.
PositiveDecimal(t) ==
    /\ t # <<>>
    /\ \A i \in DOMAIN t : t[i] \in Digits
    /\ \E i \in DOMAIN t : t[i] # "0"

\* C34: while a request waits for a retry, its delay is the Retry-After
\* value in milliseconds when the attempt before received a 429 whose
\* Retry-After is a positive number; in every other case (429 with a
\* missing, empty, non-numeric, zero or negative header, any other response
\* with or without Retry-After, a transport error) it is
\* BASE_DELAY_MS * 2^attempt plus the jitter.
C34_RetryAfterOnlyOn429 ==
    \A r \in Requests :
        req[r].pc = "sleeping"
        => LET h == req[r].resRetryAfter
               backoff == BASE_DELAY_MS * Pow2(req[r].attempt) + Jitter(req[r].rnd)
           IN  IF /\ req[r].site = "response"
                  /\ req[r].resStatus = 429
                  /\ h.present
                  /\ PositiveDecimal(h.text)
               THEN req[r].delay = DecimalValue(h.text) * 1000
               ELSE req[r].delay = backoff

\* C34 witness: the second network call received a 500 with Retry-After: 2
\* and Math.random() gave 0.5: the request waits 1000 + 125 ms, not 2000.
C34_Witness ==
    \E r \in Requests :
        /\ req[r].pc = "sleeping" /\ req[r].site = "response"
        /\ req[r].resStatus = 500 /\ req[r].resRetryAfter = Header(<<"2">>)
        /\ req[r].attempt = 1 /\ req[r].rnd = 50 /\ req[r].delay = 1125

\* The same after a 429 whose Retry-After is negative, and after a
\* transport error.
BackoffAfterNegativeHint ==
    \E r \in Requests :
        /\ req[r].pc = "sleeping" /\ req[r].resStatus = 429
        /\ req[r].resRetryAfter = Header(<<"-", "1">>) /\ req[r].delay = 500

\* ------------------------------------------------------------------------
\* Claims about the order, the timer and the batches of Analytics
\* ------------------------------------------------------------------------
\* The events of q are in the order track() accepted them.
InAcceptanceOrder(q) == \A i, j \in DOMAIN q : i < j => q[i] < q[j]

\* C35: in every state the queue lists its events in the order track()
\* accepted them, whatever the interleaving of track(), flushes and their
\* completions, also when several POSTs are outstanding and fail in any
\* order.
C35_FifoOrder == InAcceptanceOrder(queue)

\* What the code keeps: the queue stays in acceptance order through every
\* step taken while each outstanding snapshot is in that order and older
\* than every queued event.  A snapshot that fails after an older one was put
\* back is not.
FifoWhileSnapshotsAreOlderStep ==
    (/\ InAcceptanceOrder(queue)
     /\ \A f \in flights :
           /\ InAcceptanceOrder(f.events)
           /\ \A e \in Range(f.events), i \in DOMAIN queue : e < queue[i])
    => InAcceptanceOrder(queue')

FifoWhileSnapshotsAreOlder == [][FifoWhileSnapshotsAreOlderStep]_vars

C36_OneTimer ==
    /\ Cardinality(timers) <= 1
    /\ timers = IF flushTimer # 0 THEN {flushTimer} ELSE {}

C36_Step ==
    \* track() arms no timer while one is armed
    /\ (accepted' = accepted + 1 /\ flushTimer # 0)
       => (timers' \subseteq timers /\ flushTimer' \in {flushTimer, 0})
    \* a flush() that the application, the timer or track() runs leaves no
    \* timer armed
    /\ (Flush \/ \E f \in flights' \ flights : TRUE)
       => (flushTimer' = 0 /\ timers' = {})
    \* a timer that fires is pending no more and its handle is dropped
    /\ \A t \in timers :
          TimerFires(t) => (t \notin timers' /\ flushTimer' = 0 /\ timers' = {})

\* C36: at most one flush timer is pending and it is the one flushTimer
\* holds (no handle is held that is not pending, no timeout is pending that
\* the field does not hold); track() arms no timer while one is armed; every
\* flush() leaves the timer cleared; a timer that fires is pending no more.
C36_SingleFlushTimer == []C36_OneTimer /\ [][C36_Step]_vars

\* C36 witness: a second track() while the timer of the first is armed:
\* both events are queued and that one timer is pending.
C36_Witness ==
    /\ accepted = 2 /\ ops = 0 /\ queue = <<1, 2>>
    /\ flushTimer # 0 /\ timers = {flushTimer}

\* A teardown by beforeunload left the timer armed with the queue empty, and
\* the track() after it armed no second one.
TimerKeptAcrossBeacon ==
    /\ accepted = 2 /\ ops = 1 /\ queue = <<2>> /\ flights = {}
    /\ timers = {flushTimer} /\ waited[flushTimer] = FLUSH_INTERVAL_MS
    /\ gone = NothingGone /\ settled = NoSettlement

\* C37: every POST of flush() carries at most BATCH_SIZE events, in every
\* state, also when it is started after a failed flush put its snapshot back.
C37_BatchAtMostBatchSize == \A f \in flights : Len(f.events) <= BATCH_SIZE

\* What flush() sends: the whole queue, whatever its length (with the event
\* of the track() that runs it).
BatchIsWholeQueueStep ==
    \A f \in flights' \ flights :
        /\ queue' = <<>>
        /\ f.events = IF accepted' = accepted THEN queue ELSE Append(queue, accepted')

BatchIsWholeQueue == [][BatchIsWholeQueueStep]_vars

\* ------------------------------------------------------------------------
\* Claims about the delivery of queued events
\* ------------------------------------------------------------------------
\* C31: when timers fire and POSTs complete, every event that is in the
\* queue -- newly accepted, put back after a failed flush, or accepted while
\* events that were put back are queued -- is in the snapshot of a POST
\* later on, without a further call of the application.
C31_DeliveryLiveness ==
    \A e \in 1..MaxDelivered : (e \in Range(queue)) ~> (e \in FlightEvents)

\* What the code provides: the events that are queued while a flush timer is
\* pending are posted when it fires.
DeliveryWhileTimerPending ==
    \A e \in 1..MaxDelivered :
        (e \in Range(queue) /\ timers # {}) ~> (e \in FlightEvents)

\* A failed flush left events in the queue with no timer pending and no POST
\* outstanding: nothing is scheduled that would send them.
Stranded == queue # <<>> /\ timers = {} /\ flights = {}

\* ------------------------------------------------------------------------
\* Claims about Tolinku.destroy()
\* ------------------------------------------------------------------------
\* tolinku.destroy() has returned and no callback is pending: no POST is
\* outstanding and no timer is set.
DestroyedAndQuiet == ~unloadHandler /\ flights = {} /\ timers = {}

\* C38: once tolinku.destroy() has returned and the pending callbacks have
\* run, with no track() after it, the queue holds no event: what was
\* accepted before was posted with success or handed to the beacon, also the
\* events of a snapshot whose POST destroy() aborted.
C38_NothingLeftAfterDestroy == DestroyedAndQuiet => queue = <<>>

\* What the code provides: destroy() itself leaves the queue empty and no
\* timer set, and the events found in the queue afterwards are the
\* snapshots of the POSTs it aborted, put back by the catch block of
\* flush().
LeftoversAreAbortedSnapshotsStep ==
    /\ (\E beacon \in SendBeacon : TolinkuDestroy(beacon))
       => (queue' = <<>> /\ timers' = {} /\ cancelled' = cancelled \cup flights)
    /\ (~unloadHandler /\ queue' # queue)
       => \E f \in flights \cap cancelled :
             /\ settled'.post = "rejected"
             /\ queue' = f.events \o queue

LeftoversAreAbortedSnapshots == [][LeftoversAreAbortedSnapshotsStep]_vars

\* ------------------------------------------------------------------------
\* Claims about Messages and Banners
\* ------------------------------------------------------------------------
\* C39: an overlay that show() rendered is attached and held by its field
\* as long as dismiss() was not called after that render, whatever removals
\* earlier dismiss() calls have scheduled; and at most one overlay of each
\* kind is attached.
C39_OverlayKeptUntilDismissed ==
    \A k \in Kinds :
        /\ (ui[k].rendered > 0 /\ ~ui[k].dismissed)
           => (ui[k].overlay = ui[k].rendered /\ ui[k].rendered \in ui[k].attached)
        /\ Cardinality(ui[k].attached) <= 1

\* What the code provides: the overlays and the style elements that are
\* attached are the ones the fields hold, at most one of each kind.
AttachedIsHeld ==
    \A k \in Kinds :
        /\ ui[k].attached = IF ui[k].overlay # 0 THEN {ui[k].overlay} ELSE {}
        /\ ui[k].styles = IF ui[k].styleEl # 0 THEN {ui[k].styleEl} ELSE {}
        /\ ui[k].styleEl = ui[k].overlay

\* ... and an overlay rendered while no removal is pending stays until
\* dismiss() is called: one that is gone without a dismiss() after its
\* render was taken by a removal that was pending at the render.
KeptWhenNoRemovalPendingStep ==
    \A k \in Kinds :
        (ui[k].rendered > 0 /\ ~ui[k].dismissed /\ ui[k].overlay = ui[k].rendered
            /\ ui[k].removals = 0)
        => (ui'[k].dismissed \/ ui'[k].overlay = ui'[k].rendered)

KeptWhenNoRemovalPending == [][KeptWhenNoRemovalPendingStep]_vars

====
